---- MODULE Spec2Model ----
(***************************************************************************)
(* Second-Guess: the decision pipeline (workflow.py), the confidence       *)
(* estimator (confidence_estimator.py), the telemetry client               *)
(* (langfuse_client.py) and the versioned decision store                   *)
(* (decision_service.py, database.py).                                     *)
(*                                                                         *)
(* Strings whose characters matter (assumption statements, critique flags, *)
(* scenario descriptions) are sequences of one-character strings; names    *)
(* that are only compared whole are TLA+ strings.                          *)
(***************************************************************************)
EXTENDS Integers, Sequences, FiniteSets, TLC

VARIABLES
    store,      \* table decision_runs: sequence of rows, index = primary key id
    now,        \* datetime.utcnow() at one-second resolution
    langfuse,   \* LangfuseClient class state: [enabled, instance]
    env_keys,   \* LANGFUSE_PUBLIC_KEY and LANGFUSE_SECRET_KEY are both set
    nreq,       \* number of requests started so far
    pc,         \* per handler: position in evaluate_decision / reevaluate_decision
    req,        \* per handler: the request being served
    st,         \* per handler: the DecisionState of its workflow run
    loc,        \* per handler: decision_id, version, timestamp and latest_run.version locals of the service method
    invoked,    \* per handler: the agents called by the run so far, in call order
    result,     \* per handler: what the service method gave its caller
    est_in,     \* direct call of an agent's local code: its inputs
    est_out     \* direct call of an agent's local code: its outputs

vars == <<store, now, langfuse, env_keys, nreq, pc, req, st, loc, invoked,
          result, est_in, est_out>>

svc_vars == <<store, now, langfuse, env_keys, nreq, pc, req, st, loc, invoked, result>>

----------------------------------------------------------------------------
(* Bounds of the model *)

MaxRequests == 3    \* evaluations started in one behaviour
MaxTime == 1        \* the clock runs over seconds 0..MaxTime
MaxItems == 2       \* longest list drawn freely from the samples handed to the estimator

----------------------------------------------------------------------------
(* Generic helpers *)

None == [none |-> TRUE]

Min(a, b) == IF a < b THEN a ELSE b

Max(a, b) == IF a > b THEN a ELSE b

\* a slice that cuts nothing off
Take_all(s, n) == s

\* Python slice s[:n]
Take(s, n) == SubSeq(s, 1, Min(n, Len(s)))

RECURSIVE SelectSeqBy(_, _)
\* list comprehension [x for x in s if x in keep]
SelectSeqBy(s, keep) ==
    IF s = <<>> THEN <<>>
    ELSE LET rest == SelectSeqBy(Tail(s), keep)
         IN  IF Head(s) \in keep THEN <<Head(s)>> \o rest ELSE rest

Range(s) == {s[i] : i \in 1..Len(s)}

\* sequences over S of length 0..n
SeqUpTo(S, n) == UNION {[1..k -> S] : k \in 0..n}

\* str.lower() on the model's alphabet
LowerChar(c) == IF c = "A" THEN "a" ELSE IF c = "B" THEN "b" ELSE c

\* a comparison that keeps the case
Lower_keep(s) == s

Lower(s) == [i \in 1..Len(s) |-> LowerChar(s[i])]

\* Python's `a in b` on strings
IsSubstring(a, b) ==
    \E i \in 0..(Len(b) - Len(a)) : SubSeq(b, i + 1, i + Len(a)) = a

----------------------------------------------------------------------------
(* Context analyzer: the deterministic part of ContextAnalyzerAgent *)

DECISION_TYPE_CONTEXTS ==
    [launch |-> <<"deployment readiness", "rollback plan",
                  "system stability verification", "customer impact analysis",
                  "team capacity and availability", "monitoring and alerting setup">>,
     pricing |-> <<"competitive analysis", "cost structure",
                   "target customer segment", "revenue impact model",
                   "customer churn risk assessment", "market positioning strategy">>,
     hiring |-> <<"current team capacity", "budget and runway",
                  "role requirements and urgency", "onboarding capacity",
                  "hiring timeline", "team growth impact">>,
     technical |-> <<"technical requirements", "implementation complexity",
                     "technical debt implications", "resource requirements",
                     "testing strategy", "rollback and failure recovery">>,
     market_entry |-> <<"market size and opportunity", "competitive landscape",
                        "customer acquisition strategy", "resource requirements",
                        "timeline and milestones", "risk assessment">>]

\* round(100 * n / d) as Python rounds: to the nearest, a tie to the even one
RoundHalfEven(n, d) ==
    LET q == n \div d
        r == n % d
    IN  IF 2 * r < d THEN q
        ELSE IF 2 * r > d THEN q + 1
        ELSE IF q % 2 = 0 THEN q ELSE q + 1

\* a score that is rounded instead of cut off
_calculate_completeness_score_round(provided, required) ==
    IF Len(required) = 0 THEN 100
    ELSE Max(0, Min(100, RoundHalfEven(Len(provided) * 100, Len(required))))

\* int((len(provided) / len(required)) * 100), clamped to 0..100; for lists of
\* fewer than 50 items the float product cut off by int() is the integer quotient
_calculate_completeness_score(provided, required) ==
    IF Len(required) = 0 THEN 100
    ELSE Max(0, Min(100, (Len(provided) * 100) \div Len(required)))

\* analyze, given the collaborator's two answers: the decision type and the
\* dimensions it says the context addresses
analyze(decision_type, provided) ==
    LET required_context == DECISION_TYPE_CONTEXTS[decision_type]
        provided_context == provided
        missing_context  == SelectSeqBy(required_context,
                                Range(required_context) \ Range(provided_context))
    IN  [decision_type      |-> decision_type,
         required_context   |-> required_context,
         provided_context   |-> provided_context,
         missing_context    |-> missing_context,
         completeness_score |->
             _calculate_completeness_score(provided_context, required_context)]

----------------------------------------------------------------------------
(* Confidence estimator *)

RECURSIVE total_penalty(_)
\* sum(p.percentage_impact for p in penalties)
total_penalty(penalties) ==
    IF penalties = <<>> THEN 0
    ELSE Head(penalties).percentage_impact + total_penalty(Tail(penalties))

\* a slip at the boundaries: <= where the code has <
_calculate_missing_context_penalties_le(context_analysis) ==
    LET penalty == IF context_analysis.completeness_score <= 30 THEN 20
                   ELSE IF context_analysis.completeness_score <= 50 THEN 15
                   ELSE 10
        missing == context_analysis.missing_context
    IN  [i \in 1..Len(missing) |->
            [reason |-> <<"Missing critical context", missing[i]>>,
             percentage_impact |-> penalty]]

_calculate_missing_context_penalties(context_analysis) ==
    LET penalty == IF context_analysis.completeness_score < 30 THEN 20
                   ELSE IF context_analysis.completeness_score < 50 THEN 15
                   ELSE 10
        missing == context_analysis.missing_context
    IN  [i \in 1..Len(missing) |->
            [reason |-> <<"Missing critical context", missing[i]>>,
             percentage_impact |-> penalty]]

\* no filter on the source of a claim
ProposerClaims_all(claims) == claims

RECURSIVE ProposerClaims(_)
\* [claim for claim in claims if claim.source == "proposer"]
ProposerClaims(claims) ==
    IF claims = <<>> THEN <<>>
    ELSE IF Head(claims).source = "proposer"
         THEN <<Head(claims)>> \o ProposerClaims(Tail(claims))
         ELSE ProposerClaims(Tail(claims))

_calculate_unsupported_claim_penalties(judge_output) ==
    LET proposer_unsupported == ProposerClaims(judge_output.unsupported_claims)
    IN  [i \in 1..Len(proposer_unsupported) |->
            [reason |-> <<"Unsupported claim", Take(proposer_unsupported[i].claim, 60)>>,
             percentage_impact |-> 8]]

RECURSIVE HighRiskPenalties(_, _)
\* the loop over proposer_output.assumptions
HighRiskPenalties(assumptions, hras) ==
    IF assumptions = <<>> THEN <<>>
    ELSE LET assumption == Head(assumptions)
             rest == HighRiskPenalties(Tail(assumptions), hras)
             flagged == \E k \in 1..Len(hras) :
                            IsSubstring(Lower(assumption.statement), Lower(hras[k]))
         IN  IF assumption.risk_level = "high"
             THEN IF flagged
                  THEN <<[reason |-> <<"High-risk unverified assumption",
                                       Take(assumption.statement, 60)>>,
                          percentage_impact |-> 12]>> \o rest
                  ELSE <<[reason |-> <<"High-risk assumption",
                                       Take(assumption.statement, 60)>>,
                          percentage_impact |-> 6]>> \o rest
             ELSE rest

_calculate_high_risk_assumption_penalties(proposer_output, devils_advocate_output) ==
    HighRiskPenalties(proposer_output.assumptions,
                      devils_advocate_output.high_risk_assumptions)

_calculate_weak_claim_penalties(judge_output) ==
    LET proposer_weak == ProposerClaims(judge_output.weak_claims)
    IN  [i \in 1..Len(proposer_weak) |->
            [reason |-> <<"Weak/vague claim", Take(proposer_weak[i].claim, 60)>>,
             percentage_impact |-> 5]]

\* two independent ifs instead of if / elif
_calculate_execution_risk_penalties_both(devils_advocate_output) ==
    LET execution_risk == devils_advocate_output.risk_breakdown.execution
    IN  (IF execution_risk >= 8
         THEN <<[reason |-> <<"Critical execution risk level", execution_risk>>,
                 percentage_impact |-> 15]>>
         ELSE <<>>)
     \o (IF execution_risk >= 6
         THEN <<[reason |-> <<"High execution risk level", execution_risk>>,
                 percentage_impact |-> 8]>>
         ELSE <<>>)

_calculate_execution_risk_penalties(devils_advocate_output) ==
    LET execution_risk == devils_advocate_output.risk_breakdown.execution
    IN  IF execution_risk >= 8
        THEN <<[reason |-> <<"Critical execution risk level", execution_risk>>,
                percentage_impact |-> 15]>>
        ELSE IF execution_risk >= 6
        THEN <<[reason |-> <<"High execution risk level", execution_risk>>,
                percentage_impact |-> 8]>>
        ELSE <<>>

\* a slip that forgets the lower clamp
adjust_unclamped(initial_confidence, total) == Min(100, initial_confidence - total)

\* penalties added instead of taken off
adjust_raised(initial_confidence, total) == Max(0, Min(100, initial_confidence + total))

\* max(0, min(100, initial_confidence - total_penalty))
adjust(initial_confidence, total) == Max(0, Min(100, initial_confidence - total))

estimate(context_analysis, proposer_output, devils_advocate_output, judge_output) ==
    LET initial_confidence == proposer_output.confidence
        penalties ==
               _calculate_missing_context_penalties(context_analysis)
            \o _calculate_unsupported_claim_penalties(judge_output)
            \o _calculate_high_risk_assumption_penalties(
                   proposer_output, devils_advocate_output)
            \o _calculate_weak_claim_penalties(judge_output)
            \o _calculate_execution_risk_penalties(devils_advocate_output)
        adjusted_confidence == adjust(initial_confidence, total_penalty(penalties))
    IN  [initial_confidence  |-> initial_confidence,
         adjusted_confidence |-> adjusted_confidence,
         delta               |-> adjusted_confidence - initial_confidence,
         penalties           |-> penalties,
         improvements        |-> <<>>]

RECURSIVE StatementsOfAnyRisk(_, _)
\* no filter on the risk level
StatementsOfAnyRisk(assumptions, level) ==
    IF assumptions = <<>> THEN <<>>
    ELSE <<Head(assumptions).statement>> \o StatementsOfAnyRisk(Tail(assumptions), level)

RECURSIVE StatementsWithRisk(_, _)
\* [a.statement for a in assumptions if a.risk_level == level]
StatementsWithRisk(assumptions, level) ==
    IF assumptions = <<>> THEN <<>>
    ELSE IF Head(assumptions).risk_level = level
         THEN <<Head(assumptions).statement>> \o StatementsWithRisk(Tail(assumptions), level)
         ELSE StatementsWithRisk(Tail(assumptions), level)

\* no filter on the severity
ScenariosOfAnySeverity(scenarios, severities) == scenarios

RECURSIVE ScenariosWithSeverity(_, _)
\* [fs for fs in failure_scenarios if fs.impact_severity in severities]
ScenariosWithSeverity(scenarios, severities) ==
    IF scenarios = <<>> THEN <<>>
    ELSE IF Head(scenarios).impact_severity \in severities
         THEN <<Head(scenarios)>> \o ScenariosWithSeverity(Tail(scenarios), severities)
         ELSE ScenariosWithSeverity(Tail(scenarios), severities)

\* a slip at the thresholds: <= where the code has <
generate_final_recommendation_le(confidence_output, proposer_output, devils_advocate_output, context_analysis) ==
    [heading |-> IF confidence_output.adjusted_confidence <= 40 THEN "DELAY"
                 ELSE IF confidence_output.adjusted_confidence <= 70
                 THEN "CONDITIONAL PROCEED"
                 ELSE "PROCEED",
     shown |-> confidence_output.adjusted_confidence,
     items |-> <<>>,
     no_list |-> FALSE]

\* The rendered text, kept as its parts: the heading line, the percentage shown,
\* the bullet list, and whether the text without a list was chosen.
generate_final_recommendation(confidence_output, proposer_output, devils_advocate_output, context_analysis) ==
    LET adjusted_confidence == confidence_output.adjusted_confidence
        missing == context_analysis.missing_context
        scenarios == devils_advocate_output.failure_scenarios
        high_risk_assumptions == StatementsWithRisk(proposer_output.assumptions, "high")
    IN  IF adjusted_confidence < 40
        THEN LET top3 == Take(missing, 3)
                 top_assumptions == Take(high_risk_assumptions, 2)
                 critical_scenarios == Take(ScenariosWithSeverity(scenarios, {"critical"}), 2)
                 blockers ==
                       [i \in 1..Len(top3) |->
                            [label |-> "Gather missing context", arg |-> top3[i]]]
                    \o [i \in 1..Len(top_assumptions) |->
                            [label |-> "Verify assumption", arg |-> top_assumptions[i]]]
                    \o [i \in 1..Len(critical_scenarios) |->
                            [label |-> "Mitigate risk",
                             arg |-> critical_scenarios[i].description]]
             IN  [heading |-> "DELAY", shown |-> adjusted_confidence,
                  items |-> Take(blockers, 5), no_list |-> FALSE]
        ELSE IF adjusted_confidence < 70
        THEN LET high_severity_scenarios ==
                     ScenariosWithSeverity(scenarios, {"high", "critical"})
                 requirements ==
                       (IF missing # <<>>
                        THEN <<[label |-> "Obtain", arg |-> Take(missing, 2)]>>
                        ELSE <<>>)
                    \o (IF high_risk_assumptions # <<>>
                        THEN <<[label |-> "Validate assumptions",
                                arg |-> Take(high_risk_assumptions[1], 50)]>>
                        ELSE <<>>)
                    \o (IF high_severity_scenarios # <<>>
                        THEN <<[label |-> "Prepare mitigation for",
                                arg |-> Take(high_severity_scenarios[1].description, 50)]>>
                        ELSE <<>>)
             IN  [heading |-> "CONDITIONAL PROCEED", shown |-> adjusted_confidence,
                  items |-> Take(requirements, 5), no_list |-> FALSE]
        ELSE LET medium_risk_assumptions ==
                     StatementsWithRisk(proposer_output.assumptions, "medium")
                 risk_breakdown == devils_advocate_output.risk_breakdown
                 monitoring_items ==
                       (IF medium_risk_assumptions # <<>>
                        THEN <<[label |-> "Monitor assumption",
                                arg |-> Take(medium_risk_assumptions[1], 60)]>>
                        ELSE <<>>)
                    \o (IF scenarios # <<>>
                        THEN <<[label |-> "Watch for",
                                arg |-> Take(scenarios[1].description, 60)]>>
                        ELSE <<>>)
                    \o (IF risk_breakdown.execution >= 5
                        THEN <<[label |-> "Monitor execution closely",
                                arg |-> risk_breakdown.execution]>>
                        ELSE <<>>)
                    \o (IF risk_breakdown.reputational >= 6
                        THEN <<[label |-> "Monitor public perception",
                                arg |-> risk_breakdown.reputational]>>
                        ELSE <<>>)
             IN  IF monitoring_items # <<>>
                 THEN [heading |-> "PROCEED", shown |-> adjusted_confidence,
                       items |-> Take(monitoring_items, 4), no_list |-> FALSE]
                 ELSE [heading |-> "PROCEED", shown |-> adjusted_confidence,
                       items |-> <<>>, no_list |-> TRUE]

----------------------------------------------------------------------------
(* Telemetry client: LangfuseClient.get_client *)

\* a client handed out whatever the settings are
get_client_always(cls, keys, ctor_ok) == [client |-> TRUE, cls |-> cls]

\* ctor_ok: the Langfuse(...) constructor returned instead of raising
get_client(cls, keys, ctor_ok) ==
    IF ~cls.enabled
    THEN [client |-> FALSE, cls |-> cls]
    ELSE IF ~cls.instance
    THEN IF ~keys
         THEN [client |-> FALSE, cls |-> [enabled |-> FALSE, instance |-> FALSE]]
         ELSE IF ctor_ok
         THEN [client |-> TRUE, cls |-> [enabled |-> TRUE, instance |-> TRUE]]
         ELSE [client |-> FALSE, cls |-> [enabled |-> FALSE, instance |-> FALSE]]
    ELSE [client |-> TRUE, cls |-> cls]

\* LangfuseClient.is_enabled: _enabled is read first, the client is asked for
\* only when none is in place
is_enabled(cls, keys, ctor_ok) ==
    IF ~cls.enabled
    THEN [returned |-> FALSE, cls |-> cls]
    ELSE IF cls.instance
    THEN [returned |-> TRUE, cls |-> cls]
    ELSE LET g == get_client(cls, keys, ctor_ok)
         IN  [returned |-> g.client, cls |-> g.cls]

----------------------------------------------------------------------------
(* Exceptions *)

APIError == [type |-> "APIError", msg |-> "collaborator call failed"]

ValidationError == [type |-> "ValidationError", msg |-> "report failed validation"]

TelemetryError == [type |-> "TelemetryError", msg |-> "langfuse call failed"]

IntegrityError == [type |-> "IntegrityError", msg |-> "UNIQUE constraint failed"]

NotFoundError(decision_id) ==
    [type |-> "ValueError", msg |-> <<"Decision", decision_id, "not found">>]

MismatchError(expected, got) ==
    [type |-> "ValueError",
     msg |-> <<"Decision statement must match original.", "Expected:", expected, "Got:", got>>]

AgentErrors == {APIError, ValidationError}

\* a node that takes whatever the call gave as the report
IsRaised_never(out) == FALSE

\* the call of an agent ended in an exception instead of a report
IsRaised(out) == out \in AgentErrors

\* an exception leaving graph.invoke, workflow.run and the service method reaches
\* the caller as the object that was raised inside the node
Surface(exc, node) == exc

----------------------------------------------------------------------------
(* Workflow graph *)

Nodes == {"context_analyzer", "proposer", "devils_advocate", "judge",
          "confidence_estimator"}

\* a graph whose judge node is entered again
Edge_retry(node) ==
    CASE node = "context_analyzer" -> "proposer"
      [] node = "proposer" -> "devils_advocate"
      [] node = "devils_advocate" -> "judge"
      [] node = "judge" -> "judge"
      [] node = "confidence_estimator" -> "END"

\* a graph whose judge node leads straight to the end
Edge_skip(node) ==
    CASE node = "context_analyzer" -> "proposer"
      [] node = "proposer" -> "devils_advocate"
      [] node = "devils_advocate" -> "judge"
      [] node = "judge" -> "END"
      [] node = "confidence_estimator" -> "END"

\* workflow.add_edge(node, ...)
Edge(node) ==
    CASE node = "context_analyzer" -> "proposer"
      [] node = "proposer" -> "devils_advocate"
      [] node = "devils_advocate" -> "judge"
      [] node = "judge" -> "confidence_estimator"
      [] node = "confidence_estimator" -> "END"

EntryPoint == "context_analyzer"

\* the key of DecisionState a node assigns its report to
ReportField(node) ==
    CASE node = "context_analyzer" -> "context_analysis"
      [] node = "proposer" -> "proposer_output"
      [] node = "devils_advocate" -> "devils_advocate_output"
      [] node = "judge" -> "judge_output"
      [] node = "confidence_estimator" -> "confidence_output"

initial_state(decision, context, trace_id) ==
    [decision |-> decision,
     context |-> context,
     context_analysis |-> None,
     proposer_output |-> None,
     devils_advocate_output |-> None,
     judge_output |-> None,
     confidence_output |-> None,
     final_recommendation |-> None,
     trace_id |-> trace_id]

----------------------------------------------------------------------------
(* Version store *)

RowsOf(rows, decision_id) ==
    {i \in 1..Len(rows) : rows[i].decision_id = decision_id}

\* .filter(decision_id == ...).order_by(version.desc()).first(); 0 when no row
first_by_version_desc(rows, decision_id) ==
    IF RowsOf(rows, decision_id) = {} THEN 0
    ELSE CHOOSE i \in RowsOf(rows, decision_id) :
             \A j \in RowsOf(rows, decision_id) : rows[j].version <= rows[i].version

\* a lookup that ignores the version asked for and answers with the newest row
first_with_version_newest(rows, decision_id, version) ==
    first_by_version_desc(rows, decision_id)

\* a lookup that falls back to the newest row when the version asked for is absent
first_with_version_fallback(rows, decision_id, version) ==
    IF \E i \in RowsOf(rows, decision_id) : rows[i].version = version
    THEN CHOOSE i \in RowsOf(rows, decision_id) : rows[i].version = version
    ELSE first_by_version_desc(rows, decision_id)

\* .filter(decision_id == ..., version == ...).first(); 0 when no row
first_with_version(rows, decision_id, version) ==
    IF \E i \in RowsOf(rows, decision_id) : rows[i].version = version
    THEN CHOOSE i \in RowsOf(rows, decision_id) : rows[i].version = version
    ELSE 0

\* a slip in the ordering of the query: the oldest version instead of the newest
_get_next_version_asc(rows, decision_id) ==
    IF RowsOf(rows, decision_id) = {} THEN 1
    ELSE LET i == CHOOSE i \in RowsOf(rows, decision_id) :
                      \A j \in RowsOf(rows, decision_id) : rows[i].version <= rows[j].version
         IN  rows[i].version + 1

\* a number left out after the newest version
_get_next_version_skip(rows, decision_id) ==
    LET latest == first_by_version_desc(rows, decision_id)
    IN  IF latest # 0 THEN rows[latest].version + 2 ELSE 1

_get_next_version(rows, decision_id) ==
    LET latest == first_by_version_desc(rows, decision_id)
    IN  IF latest # 0 THEN rows[latest].version + 1 ELSE 1

\* the number after the version that was the latest when the request was validated
next_version_stale(rows, decision_id, latest_run_version) == latest_run_version + 1

\* next_version = self._get_next_version(db, decision_id), after workflow.run returned;
\* latest_run, read before the run, is not used for it
next_version(rows, decision_id, latest_run_version) ==
    _get_next_version(rows, decision_id)

\* a table without the constraint
uix_missing(rows, decision_id, version) == FALSE

\* UniqueConstraint('decision_id', 'version'): the insert is refused
uix_decision_version(rows, decision_id, version) ==
    \E i \in 1..Len(rows) :
        rows[i].decision_id = decision_id /\ rows[i].version = version

\* dec_YYYYMMDD_<type>_HHMMSS
_generate_decision_id(decision_type, t) == <<"dec", decision_type, t>>

\* a check that lets every statement through
statement_unchecked(given, stored) == TRUE

\* decision_input.decision != latest_run.decision is the error case
statement_matches(given, stored) == given = stored

DecisionRun(decision_id, version, timestamp, decision_input, final_state) ==
    [decision_id |-> decision_id,
     version |-> version,
     timestamp |-> timestamp,
     decision |-> decision_input.decision,
     context_provided |-> decision_input.context,
     context_analysis |-> final_state.context_analysis,
     proposer_output |-> final_state.proposer_output,
     devils_advocate_output |-> final_state.devils_advocate_output,
     judge_output |-> final_state.judge_output,
     confidence_output |-> final_state.confidence_output,
     final_recommendation |-> final_state.final_recommendation]

DecisionRunDB(decision_id, version, timestamp, decision_input, decision_run) ==
    [decision_id |-> decision_id,
     version |-> version,
     timestamp |-> timestamp,
     input_json |-> decision_input,
     output_json |-> decision_run]

DecisionResponse(decision_run) ==
    [decision_id |-> decision_run.decision_id,
     version |-> decision_run.version,
     timestamp |-> decision_run.timestamp,
     decision |-> decision_run.decision,
     context_provided |-> decision_run.context_provided,
     context_analysis |-> decision_run.context_analysis,
     proposer_output |-> decision_run.proposer_output,
     devils_advocate_output |-> decision_run.devils_advocate_output,
     judge_output |-> decision_run.judge_output,
     confidence_output |-> decision_run.confidence_output,
     final_recommendation |-> decision_run.final_recommendation,
     risk_breakdown |-> IF decision_run.devils_advocate_output # None
                        THEN decision_run.devils_advocate_output.risk_breakdown
                        ELSE None]

\* the HTTP answer of POST /api/v1/decisions for an outcome of evaluate_decision
create_decision_evaluation(res) ==
    IF res.status = "ok"
    THEN [status_code |-> 201, body |-> res.response]
    ELSE [status_code |-> 500, detail |-> res.error.msg]

VersionNotFoundError(decision_id, version) ==
    [type |-> "ValueError",
     msg |-> <<"Decision", decision_id, "version", version, "not found">>]

RECURSIVE OrderByVersionDesc(_, _)
\* the opposite ordering
OrderByVersionDesc(rows, idx) ==
    IF idx = {} THEN <<>>
    ELSE LET i == CHOOSE i \in idx :
                      \A j \in idx : \/ rows[i].version > rows[j].version
                                     \/ (rows[i].version = rows[j].version /\ i <= j)
         IN  <<i>> \o OrderByVersionDesc(rows, idx \ {i})

RECURSIVE OrderByVersionAsc(_, _)
\* .order_by(version.asc()) over the rows with the given indices
OrderByVersionAsc(rows, idx) ==
    IF idx = {} THEN <<>>
    ELSE LET i == CHOOSE i \in idx :
                      \A j \in idx : \/ rows[i].version < rows[j].version
                                     \/ (rows[i].version = rows[j].version /\ i <= j)
         IN  <<i>> \o OrderByVersionAsc(rows, idx \ {i})

\* .filter(decision_id == ...).order_by(version.asc()).all()
all_by_version_asc(rows, decision_id) ==
    OrderByVersionAsc(rows, RowsOf(rows, decision_id))

get_decision(rows, decision_id, version) ==
    LET record == first_with_version(rows, decision_id, version)
    IN  IF record = 0
        THEN [status |-> "error", error |-> VersionNotFoundError(decision_id, version)]
        ELSE [status |-> "ok", response |-> DecisionResponse(rows[record].output_json)]

get_latest_decision(rows, decision_id) ==
    LET latest_record == first_by_version_desc(rows, decision_id)
    IN  IF latest_record = 0
        THEN [status |-> "error", error |-> NotFoundError(decision_id)]
        ELSE [status |-> "ok",
              response |-> DecisionResponse(rows[latest_record].output_json)]

VersionSummary(decision_run) ==
    [version |-> decision_run.version,
     timestamp |-> decision_run.timestamp,
     context_completeness |-> decision_run.context_analysis.completeness_score,
     adjusted_confidence |-> IF decision_run.confidence_output # None
                             THEN decision_run.confidence_output.adjusted_confidence
                             ELSE 0,
     final_recommendation |-> IF decision_run.final_recommendation # None
                              THEN decision_run.final_recommendation
                              ELSE "N/A"]

get_all_versions(rows, decision_id) ==
    LET records == all_by_version_asc(rows, decision_id)
    IN  IF records = <<>>
        THEN [status |-> "error", error |-> NotFoundError(decision_id)]
        ELSE [status |-> "ok",
              response |-> [k \in 1..Len(records) |->
                               VersionSummary(rows[records[k]].output_json)]]

\* one dimension of RiskDelta; a missing critique counts as 0
risk_delta(v1_risk, v2_risk, dim) ==
    (IF v2_risk # None THEN v2_risk[dim] ELSE 0)
        - (IF v1_risk # None THEN v1_risk[dim] ELSE 0)

\* a difference taken the wrong way round
confidence_delta_reversed(v1_run, v2_run) ==
    (IF v1_run.confidence_output # None
     THEN v1_run.confidence_output.adjusted_confidence ELSE 0)
        - (IF v2_run.confidence_output # None
           THEN v2_run.confidence_output.adjusted_confidence ELSE 0)

confidence_delta(v1_run, v2_run) ==
    (IF v2_run.confidence_output # None
     THEN v2_run.confidence_output.adjusted_confidence ELSE 0)
        - (IF v1_run.confidence_output # None
           THEN v1_run.confidence_output.adjusted_confidence ELSE 0)

\* "still missing" taken as everything v2 misses
remaining_missing_all(v1_missing, v2_missing) == v2_missing

\* list(v2_missing & v1_missing)
remaining_missing(v1_missing, v2_missing) == v2_missing \cap v1_missing

\* The three lists of context items are built from Python sets, whose order is
\* not fixed; they are kept as sets.
compare_versions(rows, decision_id, v1, v2) ==
    LET v1_record == first_with_version(rows, decision_id, v1)
        v2_record == first_with_version(rows, decision_id, v2)
    IN  IF v1_record = 0
        THEN [status |-> "error", error |-> VersionNotFoundError(decision_id, v1)]
        ELSE IF v2_record = 0
        THEN [status |-> "error", error |-> VersionNotFoundError(decision_id, v2)]
        ELSE LET v1_run == rows[v1_record].output_json
                 v2_run == rows[v2_record].output_json
                 v1_risk == IF v1_run.devils_advocate_output # None
                            THEN v1_run.devils_advocate_output.risk_breakdown ELSE None
                 v2_risk == IF v2_run.devils_advocate_output # None
                            THEN v2_run.devils_advocate_output.risk_breakdown ELSE None
                 v1_missing == Range(v1_run.context_analysis.missing_context)
                 v2_missing == Range(v2_run.context_analysis.missing_context)
             IN  [status |-> "ok",
                  response |->
                    [decision_id |-> decision_id,
                     v1 |-> v1,
                     v2 |-> v2,
                     context_completeness_delta |->
                         v2_run.context_analysis.completeness_score
                             - v1_run.context_analysis.completeness_score,
                     confidence_delta |-> confidence_delta(v1_run, v2_run),
                     risk_reduction |->
                         [execution |-> risk_delta(v1_risk, v2_risk, "execution"),
                          market_customer |->
                              risk_delta(v1_risk, v2_risk, "market_customer"),
                          reputational |-> risk_delta(v1_risk, v2_risk, "reputational"),
                          opportunity_cost |->
                              risk_delta(v1_risk, v2_risk, "opportunity_cost")],
                     resolved_missing_context |-> v1_missing \ v2_missing,
                     remaining_missing_context |->
                         remaining_missing(v1_missing, v2_missing),
                     new_missing_context |-> v2_missing \ v1_missing]]

----------------------------------------------------------------------------
(* What the handlers are given: requests and collaborator answers *)

Handlers == {"h1", "h2"}

Decisions == {"launch feature A", "launch feature B"}

Contexts == {"", "tests passing"}

\* decision types the classifier answers with in the request model
StubTypes == {"launch"}

\* the dimension lists _extract_provided_context returns in the request model
ProvidedChoices(required_context, context) ==
    IF context = "" THEN {<<>>}
    ELSE IF context = "rollback plan ready"
    THEN {<<required_context[2], required_context[4]>>}
    ELSE {Take(required_context, 3)}

\* the context texts of the requests that are later read back and compared
ReadContexts == {"tests passing", "rollback plan ready"}

\* the version numbers a caller may name in get and compare
VersionArgs == 1..(MaxRequests + 1)

StubProposals ==
    {[recommendation |-> "proceed",
      assumptions |-> <<[statement |-> <<"a", "b">>, basis |-> "context",
                         risk_level |-> "high"]>>,
      confidence |-> 85,
      justification |-> "j1"],
     [recommendation |-> "delay",
      assumptions |-> <<[statement |-> <<"c">>, basis |-> "context",
                         risk_level |-> "medium"]>>,
      confidence |-> 95,
      justification |-> "j2"]}

StubCritiques ==
    {[counterarguments |-> <<"counter">>,
      failure_scenarios |-> <<[description |-> <<"o", "u", "t">>, trigger |-> "load",
                               impact_severity |-> "critical"]>>,
      high_risk_assumptions |-> <<<<"A", "b", "c">>>>,
      risk_breakdown |-> [execution |-> 6, market_customer |-> 3,
                          reputational |-> 6, opportunity_cost |-> 2]]}

StubJudgments ==
    {[proposer_strength |-> 6,
      advocate_strength |-> 7,
      weak_claims |-> <<[source |-> "proposer", claim |-> <<"w">>,
                         weakness_reason |-> <<"v">>]>>,
      unsupported_claims |-> <<[source |-> "advocate", claim |-> <<"u">>,
                                missing_evidence |-> <<"e">>]>>,
      reasoning_assessment |-> "r"]}

\* the identities a caller may name in reevaluate
KnownIds == {_generate_decision_id(ty, t) : ty \in StubTypes, t \in 0..MaxTime}

Pending == [status |-> "pending"]

NoRequest == [op |-> "none", decision_id |-> <<>>, decision |-> "", context |-> ""]

NoLocals == [decision_id |-> <<>>, version |-> 0, timestamp |-> 0, latest_version |-> 0]

\* outcomes of one telemetry call: TRUE it returned, FALSE it raised
Outcomes(live) == IF live THEN BOOLEAN ELSE {TRUE}

----------------------------------------------------------------------------
(* Handlers *)

\* workflow.run up to graph.invoke: the parent trace and the initial state
run_prologue(p, decision, context, ctor_ok, trace_ok) ==
    LET g == get_client(langfuse, env_keys, ctor_ok)
        trace_id == IF g.client /\ trace_ok THEN "trace" ELSE "None"
    IN  /\ langfuse' = g.cls
        /\ st' = [st EXCEPT ![p] = initial_state(decision, context, trace_id)]
        /\ pc' = [pc EXCEPT ![p] = EntryPoint]

Raise(p, exc) ==
    result' = [result EXCEPT ![p] = [status |-> "error", error |-> exc]]

\* evaluate_decision, entered: it starts the workflow at once
StartSubmit(p, decision, context, ctor_ok, trace_ok) ==
    /\ pc[p] = "idle"
    /\ nreq < MaxRequests
    /\ nreq' = nreq + 1
    /\ req' = [req EXCEPT ![p] = [op |-> "submit", decision_id |-> <<>>,
                                  decision |-> decision, context |-> context]]
    /\ run_prologue(p, decision, context, ctor_ok, trace_ok)
    /\ UNCHANGED <<store, now, env_keys, loc, invoked, result, est_in, est_out>>

\* reevaluate_decision, entered: the latest row is read and the statement
\* compared before the workflow starts
StartReevaluate(p, decision_id, decision, context, ctor_ok, trace_ok) ==
    /\ pc[p] = "idle"
    /\ nreq < MaxRequests
    /\ nreq' = nreq + 1
    /\ req' = [req EXCEPT ![p] = [op |-> "reevaluate", decision_id |-> decision_id,
                                  decision |-> decision, context |-> context]]
    /\ LET latest_record == first_by_version_desc(store, decision_id)
       IN  IF latest_record = 0
           THEN /\ Raise(p, NotFoundError(decision_id))
                /\ pc' = [pc EXCEPT ![p] = "validate"]
                /\ UNCHANGED <<langfuse, st, loc>>
           ELSE LET latest_run == store[latest_record].output_json
                IN  IF ~statement_matches(decision, latest_run.decision)
                    THEN /\ Raise(p, MismatchError(latest_run.decision, decision))
                         /\ pc' = [pc EXCEPT ![p] = "validate"]
                         /\ UNCHANGED <<langfuse, st, loc>>
                    ELSE /\ run_prologue(p, decision, context, ctor_ok, trace_ok)
                         /\ loc' = [loc EXCEPT ![p].latest_version = latest_run.version]
                         /\ UNCHANGED result
    /\ UNCHANGED <<store, now, env_keys, invoked, est_in, est_out>>

\* A node of the graph that calls one agent: span start, the agent, the
\* assignment of its report, span end.  out is the agent's report or exception.
AgentNode(p, node, out, ctor_ok, span_ok, end_ok) ==
    /\ pc[p] = node
    /\ result[p].status = "pending"
    /\ LET g == get_client(langfuse, env_keys, ctor_ok)
           tracing == g.client /\ st[p].trace_id # "None"
       IN  /\ langfuse' = g.cls
           /\ IF tracing /\ ~span_ok
              THEN /\ Raise(p, Surface(TelemetryError, node))
                   /\ UNCHANGED <<pc, st, invoked>>
              ELSE /\ invoked' = [invoked EXCEPT ![p] = Append(@, node)]
                   /\ IF IsRaised(out)
                      THEN /\ Raise(p, Surface(out, node))
                           /\ UNCHANGED <<pc, st>>
                      ELSE /\ st' = [st EXCEPT ![p][ReportField(node)] = out]
                           /\ IF tracing /\ ~end_ok
                              THEN /\ Raise(p, Surface(TelemetryError, node))
                                   /\ UNCHANGED pc
                              ELSE /\ pc' = [pc EXCEPT ![p] = Edge(node)]
                                   /\ UNCHANGED result
    /\ UNCHANGED <<store, now, env_keys, nreq, req, loc, est_in, est_out>>

_analyze_context(p, out, ctor_ok, span_ok, end_ok) ==
    AgentNode(p, "context_analyzer", out, ctor_ok, span_ok, end_ok)

_propose_recommendation(p, out, ctor_ok, span_ok, end_ok) ==
    AgentNode(p, "proposer", out, ctor_ok, span_ok, end_ok)

_critique_recommendation(p, out, ctor_ok, span_ok, end_ok) ==
    AgentNode(p, "devils_advocate", out, ctor_ok, span_ok, end_ok)

_evaluate_reasoning(p, out, ctor_ok, span_ok, end_ok) ==
    AgentNode(p, "judge", out, ctor_ok, span_ok, end_ok)

\* The last node: the estimator is local code and has no failing call of its
\* own; after span end come three score calls.
_estimate_confidence(p, ctor_ok, span_ok, end_ok, score_ok) ==
    /\ pc[p] = "confidence_estimator"
    /\ result[p].status = "pending"
    /\ LET g == get_client(langfuse, env_keys, ctor_ok)
           tracing == g.client /\ st[p].trace_id # "None"
           state == st[p]
           confidence_output ==
               estimate(state.context_analysis, state.proposer_output,
                        state.devils_advocate_output, state.judge_output)
           final_recommendation ==
               generate_final_recommendation(confidence_output, state.proposer_output,
                   state.devils_advocate_output, state.context_analysis)
       IN  /\ langfuse' = g.cls
           /\ IF tracing /\ ~span_ok
              THEN /\ Raise(p, Surface(TelemetryError, "confidence_estimator"))
                   /\ UNCHANGED <<pc, st, invoked>>
              ELSE /\ invoked' = [invoked EXCEPT ![p] = Append(@, "confidence_estimator")]
                   /\ st' = [st EXCEPT ![p].confidence_output = confidence_output,
                                       ![p].final_recommendation = final_recommendation]
                   /\ IF tracing /\ (~end_ok \/ ~score_ok)
                      THEN /\ Raise(p, Surface(TelemetryError, "confidence_estimator"))
                           /\ UNCHANGED pc
                      ELSE /\ pc' = [pc EXCEPT ![p] = Edge("confidence_estimator")]
                           /\ UNCHANGED result
    /\ UNCHANGED <<store, now, env_keys, nreq, req, loc, est_in, est_out>>

\* graph.invoke has returned: the trace update and flush of workflow.run, made
\* on the client the run got when it started (both inside try/except), then the
\* service method fixes decision_id, from the clock as _generate_decision_id
\* reads it, and version, from the table as _get_next_version reads it
FinishRun(p, update_ok, flush_ok) ==
    /\ pc[p] = "END"
    /\ result[p].status = "pending"
    /\ loc' = [loc EXCEPT ![p] =
                 IF req[p].op = "submit"
                 THEN [decision_id |->
                           _generate_decision_id(st[p].context_analysis.decision_type, now),
                       version |-> 1,
                       timestamp |-> loc[p].timestamp,
                       latest_version |-> loc[p].latest_version]
                 ELSE [decision_id |-> req[p].decision_id,
                       version |-> next_version(store, req[p].decision_id,
                                                      loc[p].latest_version),
                       timestamp |-> loc[p].timestamp,
                       latest_version |-> loc[p].latest_version]]
    /\ pc' = [pc EXCEPT ![p] = "timestamp"]
    /\ UNCHANGED <<store, now, langfuse, env_keys, nreq, req, st, invoked, result,
                   est_in, est_out>>

\* timestamp = datetime.utcnow(): a clock read of its own, after the one that
\* named the decision and after the query for the version
ReadClock(p) ==
    /\ pc[p] = "timestamp"
    /\ result[p].status = "pending"
    /\ loc' = [loc EXCEPT ![p].timestamp = now]
    /\ pc' = [pc EXCEPT ![p] = "commit"]
    /\ UNCHANGED <<store, now, langfuse, env_keys, nreq, req, st, invoked, result,
                   est_in, est_out>>

\* db.add(db_record); db.commit(): the record carries the timestamp read before
\* it was built
Commit(p) ==
    /\ pc[p] = "commit"
    /\ result[p].status = "pending"
    /\ LET decision_input == [decision |-> req[p].decision, context |-> req[p].context]
           decision_run == DecisionRun(loc[p].decision_id, loc[p].version,
                                       loc[p].timestamp, decision_input, st[p])
           db_record == DecisionRunDB(loc[p].decision_id, loc[p].version,
                                      loc[p].timestamp, decision_input, decision_run)
       IN  IF uix_decision_version(store, loc[p].decision_id, loc[p].version)
           THEN /\ Raise(p, IntegrityError)
                /\ UNCHANGED store
           ELSE /\ store' = Append(store, db_record)
                /\ result' = [result EXCEPT ![p] =
                                 [status |-> "ok", response |-> DecisionResponse(decision_run)]]
    /\ UNCHANGED <<now, langfuse, env_keys, nreq, pc, req, st, loc, invoked, est_in, est_out>>

\* The four read methods.  Each is served in one step: its queries only read
\* rows, and rows once written stay as they are.
Read(p, request, answer) ==
    /\ pc[p] = "idle"
    /\ req' = [req EXCEPT ![p] = request]
    /\ result' = [result EXCEPT ![p] = answer]
    /\ pc' = [pc EXCEPT ![p] = "read"]
    /\ UNCHANGED <<store, now, langfuse, env_keys, nreq, st, loc, invoked, est_in, est_out>>

GetDecision(p, decision_id, version) ==
    Read(p, [op |-> "get", decision_id |-> decision_id, decision |-> "", context |-> "",
             version |-> version],
         get_decision(store, decision_id, version))

GetLatestDecision(p, decision_id) ==
    Read(p, [op |-> "get_latest", decision_id |-> decision_id, decision |-> "",
             context |-> ""],
         get_latest_decision(store, decision_id))

GetAllVersions(p, decision_id) ==
    Read(p, [op |-> "get_all_versions", decision_id |-> decision_id, decision |-> "",
             context |-> ""],
         get_all_versions(store, decision_id))

CompareVersions(p, decision_id, v1, v2) ==
    Read(p, [op |-> "compare", decision_id |-> decision_id, decision |-> "",
             context |-> "", v1 |-> v1, v2 |-> v2],
         compare_versions(store, decision_id, v1, v2))

\* the caller has its answer; the handler is free for the next request
Return(p) ==
    /\ result[p].status # "pending"
    /\ pc' = [pc EXCEPT ![p] = "idle"]
    /\ req' = [req EXCEPT ![p] = NoRequest]
    /\ st' = [st EXCEPT ![p] = None]
    /\ loc' = [loc EXCEPT ![p] = NoLocals]
    /\ invoked' = [invoked EXCEPT ![p] = <<>>]
    /\ result' = [result EXCEPT ![p] = Pending]
    /\ UNCHANGED <<store, now, langfuse, env_keys, nreq, est_in, est_out>>

\* LangfuseClient.disable(), called by the embedding program at any moment
disable ==
    /\ langfuse' = [langfuse EXCEPT !.enabled = FALSE]
    /\ UNCHANGED <<store, now, env_keys, nreq, pc, req, st, loc, invoked, result,
                   est_in, est_out>>

\* LangfuseClient.enable()
enable ==
    /\ langfuse' = [langfuse EXCEPT !.enabled = TRUE]
    /\ UNCHANGED <<store, now, env_keys, nreq, pc, req, st, loc, invoked, result,
                   est_in, est_out>>

\* LangfuseClient.is_enabled(), called outside a run.  A call of get_langfuse()
\* outside a run leaves the class in the same state.
IsEnabled(ctor_ok) ==
    /\ langfuse' = is_enabled(langfuse, env_keys, ctor_ok).cls
    /\ UNCHANGED <<store, now, env_keys, nreq, pc, req, st, loc, invoked, result,
                   est_in, est_out>>

\* a second passes
Tick ==
    /\ now < MaxTime
    /\ now' = now + 1
    /\ UNCHANGED <<store, langfuse, env_keys, nreq, pc, req, st, loc, invoked, result,
                   est_in, est_out>>

---------------------------------------------------------------------------------------------------------------------------------------------------
(* Specifications *)

Live(p) == st[p] # None /\ st[p].trace_id # "None"

\* outcomes of the Langfuse(...) constructor where get_client reaches it
Constructed == Outcomes(langfuse.enabled /\ ~langfuse.instance /\ env_keys)

\* what _analyze_context can get from its agent for a given context text
AnalyzerAnswers(context) ==
    {APIError} \cup
    UNION {{analyze(ty, pr) : pr \in ProvidedChoices(DECISION_TYPE_CONTEXTS[ty], context)}
           : ty \in StubTypes}

\* the state at start-up, with the telemetry settings given
InitWith(cfgs, rows) ==
    /\ store = rows
    /\ now = 0
    /\ \E cfg \in cfgs :
          /\ langfuse = [enabled |-> cfg[1], instance |-> FALSE]
          /\ env_keys = cfg[2]
    /\ nreq = 0
    /\ pc = [p \in Handlers |-> "idle"]
    /\ req = [p \in Handlers |-> NoRequest]
    /\ st = [p \in Handlers |-> None]
    /\ loc = [p \in Handlers |-> NoLocals]
    /\ invoked = [p \in Handlers |-> <<>>]
    /\ result = [p \in Handlers |-> Pending]
    /\ est_in = None
    /\ est_out = None

\* one step of a handler p, its inputs drawn from the given sets
Step(p, contexts, proposals, errors) ==
    \/ \E decision \in Decisions, context \in contexts,
          ctor_ok \in Outcomes(langfuse.enabled), trace_ok \in Outcomes(langfuse.enabled) :
          StartSubmit(p, decision, context, ctor_ok, trace_ok)
    \/ \E decision_id \in KnownIds, decision \in Decisions, context \in contexts,
          ctor_ok \in Outcomes(langfuse.enabled), trace_ok \in Outcomes(langfuse.enabled) :
          StartReevaluate(p, decision_id, decision, context, ctor_ok, trace_ok)
    \/ \E ctor_ok \in Constructed,
          span_ok \in Outcomes(Live(p)), end_ok \in Outcomes(Live(p)),
          out \in AnalyzerAnswers(IF st[p] = None THEN "" ELSE st[p].context) :
          _analyze_context(p, out, ctor_ok, span_ok, end_ok)
    \/ \E ctor_ok \in Constructed,
          span_ok \in Outcomes(Live(p)), end_ok \in Outcomes(Live(p)),
          out \in errors \cup proposals :
          _propose_recommendation(p, out, ctor_ok, span_ok, end_ok)
    \/ \E ctor_ok \in Constructed,
          span_ok \in Outcomes(Live(p)), end_ok \in Outcomes(Live(p)),
          out \in errors \cup StubCritiques :
          _critique_recommendation(p, out, ctor_ok, span_ok, end_ok)
    \/ \E ctor_ok \in Constructed,
          span_ok \in Outcomes(Live(p)), end_ok \in Outcomes(Live(p)),
          out \in errors \cup StubJudgments :
          _evaluate_reasoning(p, out, ctor_ok, span_ok, end_ok)
    \/ \E ctor_ok \in Constructed,
          span_ok \in Outcomes(Live(p)), end_ok \in Outcomes(Live(p)),
          score_ok \in Outcomes(Live(p)) :
          _estimate_confidence(p, ctor_ok, span_ok, end_ok, score_ok)
    \/ \E update_ok \in Outcomes(Live(p)), flush_ok \in Outcomes(Live(p)) :
          FinishRun(p, update_ok, flush_ok)
    \/ ReadClock(p)
    \/ Commit(p)
    \/ Return(p)

\* Telemetry unconfigured, an empty table, requests served concurrently.
Init == InitWith({<<TRUE, FALSE>>}, <<>>)

OneProposal == {CHOOSE x \in StubProposals : x.confidence = 85}

Next ==
    \/ Tick
    \/ \E p \in Handlers : Step(p, {"tests passing"}, OneProposal, {APIError})

Spec == Init /\ [][Next]_vars

\* A row as a completed run of the stub collaborators writes it.
StubRow(decision_id, version, decision) ==
    LET decision_input == [decision |-> decision, context |-> "tests passing"]
        context_analysis == analyze("launch", Take(DECISION_TYPE_CONTEXTS["launch"], 3))
        proposer_output == CHOOSE x \in OneProposal : TRUE
        devils_advocate_output == CHOOSE x \in StubCritiques : TRUE
        judge_output == CHOOSE x \in StubJudgments : TRUE
        confidence_output == estimate(context_analysis, proposer_output,
                                      devils_advocate_output, judge_output)
        final_state ==
            [context_analysis |-> context_analysis,
             proposer_output |-> proposer_output,
             devils_advocate_output |-> devils_advocate_output,
             judge_output |-> judge_output,
             confidence_output |-> confidence_output,
             final_recommendation |->
                 generate_final_recommendation(confidence_output, proposer_output,
                     devils_advocate_output, context_analysis)]
    IN  DecisionRunDB(decision_id, version, 0, decision_input,
                      DecisionRun(decision_id, version, 0, decision_input, final_state))

\* The same service started on a table that holds a lineage whose version 2 was
\* removed from the table by hand.
InitGaps ==
    InitWith({<<TRUE, FALSE>>},
             <<StubRow(_generate_decision_id("launch", 0), 1, "launch feature A"),
               StubRow(_generate_decision_id("launch", 0), 3, "launch feature A")>>)

SpecGaps == InitGaps /\ [][Next]_vars

\* One handler serving requests one after the other within one second,
\* telemetry configured, unconfigured or disabled at start-up and switched off
\* and on by the embedding program at any moment, every telemetry call free to
\* raise.
InitTraced == InitWith({<<TRUE, TRUE>>, <<TRUE, FALSE>>, <<FALSE, TRUE>>}, <<>>)

NextTraced ==
    \/ Step("h1", Contexts, StubProposals, AgentErrors)
    \/ disable
    \/ enable
    \/ \E ctor_ok \in Constructed : IsEnabled(ctor_ok)

SpecTraced == InitTraced /\ [][NextTraced]_vars

\* A row of a lineage written before the current table: version 1 by a release
\* that stored the context analysis only (the other reports of DecisionRun are
\* Optional), version 2 by a full run whose critique scored the risks otherwise.
SeedRow(decision_id, version, decision, context, full) ==
    LET decision_input == [decision |-> decision, context |-> context]
        context_analysis ==
            analyze("launch", CHOOSE pr \in
                        ProvidedChoices(DECISION_TYPE_CONTEXTS["launch"], context) : TRUE)
        proposer_output == CHOOSE x \in StubProposals : x.confidence = 95
        devils_advocate_output ==
            [counterarguments |-> <<"counter">>,
             failure_scenarios |-> <<>>,
             high_risk_assumptions |-> <<>>,
             risk_breakdown |-> [execution |-> 9, market_customer |-> 1,
                                 reputational |-> 6, opportunity_cost |-> 4]]
        judge_output == CHOOSE x \in StubJudgments : TRUE
        confidence_output == estimate(context_analysis, proposer_output,
                                      devils_advocate_output, judge_output)
        final_state ==
            IF full
            THEN [context_analysis |-> context_analysis,
                  proposer_output |-> proposer_output,
                  devils_advocate_output |-> devils_advocate_output,
                  judge_output |-> judge_output,
                  confidence_output |-> confidence_output,
                  final_recommendation |->
                      generate_final_recommendation(confidence_output, proposer_output,
                          devils_advocate_output, context_analysis)]
            ELSE [context_analysis |-> context_analysis,
                  proposer_output |-> None,
                  devils_advocate_output |-> None,
                  judge_output |-> None,
                  confidence_output |-> None,
                  final_recommendation |-> None]
    IN  DecisionRunDB(decision_id, version, 0, decision_input,
                      DecisionRun(decision_id, version, 0, decision_input, final_state))

SeededTable ==
    <<SeedRow(_generate_decision_id("launch", 0), 1, "launch feature A", "", FALSE),
      SeedRow(_generate_decision_id("launch", 0), 2, "launch feature A",
              "tests passing", TRUE)>>

\* One handler writing and reading within one second, on an empty table or on
\* the seeded one.
InitReads == \E rows \in {<<>>, SeededTable} : InitWith({<<TRUE, FALSE>>}, rows)

Reads(p) ==
    \/ \E decision_id \in KnownIds, version \in VersionArgs :
          GetDecision(p, decision_id, version)
    \/ \E decision_id \in KnownIds : GetLatestDecision(p, decision_id)
    \/ \E decision_id \in KnownIds : GetAllVersions(p, decision_id)
    \/ \E decision_id \in KnownIds, v1 \in VersionArgs, v2 \in VersionArgs :
          CompareVersions(p, decision_id, v1, v2)

NextReads ==
    \/ Step("h1", ReadContexts, OneProposal, {APIError})
    \/ Reads("h1")

SpecReads == InitReads /\ [][NextReads]_vars

----------------------------------------------------------------------------
(* The estimator called directly, as its unit tests call it *)

ScoreSamples == {29, 30, 49, 50}

ConfidenceSamples == {0, 40, 85, 100}

AssumptionSamples ==
    {[statement |-> <<"a", "B">>, basis |-> "b1", risk_level |-> "high"],
     [statement |-> <<"c">>, basis |-> "b2", risk_level |-> "medium"]}

\* a report longer than each slice of the DELAY list takes from it: three
\* high-risk assumptions and two medium-risk ones, all with different statements
ManyAssumptions ==
    <<[statement |-> <<"a", "B">>, basis |-> "b1", risk_level |-> "high"],
      [statement |-> <<"c">>, basis |-> "b2", risk_level |-> "medium"],
      [statement |-> <<"e">>, basis |-> "b3", risk_level |-> "high"],
      [statement |-> <<"b", "A">>, basis |-> "b4", risk_level |-> "high"],
      [statement |-> <<"g">>, basis |-> "b5", risk_level |-> "medium"]>>

AssumptionLists == SeqUpTo(AssumptionSamples, MaxItems) \cup {ManyAssumptions}

FlagSamples == {<<>>, <<<<"x", "A", "b", "y">>>>}

ExecutionSamples == {4, 5, 6, 8}

\* the flag lists paired with the execution scores; the last pair has flags that
\* hold some of the statements and not others, and the score below the upper step
CritiqueSamples ==
    (FlagSamples \X ExecutionSamples) \cup {<<<<<<"q">>, <<"B", "a", "e">>>>, 7>>}

ReputationalSamples == {5, 6}

ScenarioSamples ==
    {<<>>,
     <<[description |-> <<"d", "1">>, trigger |-> "t1", impact_severity |-> "high"],
       [description |-> <<"d", "2">>, trigger |-> "t2", impact_severity |-> "critical"]>>,
     <<[description |-> <<"d", "3">>, trigger |-> "t3", impact_severity |-> "medium"],
       [description |-> <<"d", "4">>, trigger |-> "t4", impact_severity |-> "high"]>>,
     <<[description |-> <<"d", "5">>, trigger |-> "t5", impact_severity |-> "critical"],
       [description |-> <<"d", "6">>, trigger |-> "t6", impact_severity |-> "high"],
       [description |-> <<"d", "7">>, trigger |-> "t7", impact_severity |-> "critical"],
       [description |-> <<"d", "8">>, trigger |-> "t8", impact_severity |-> "critical"]>>}

WeakSamples ==
    {<<>>,
     <<[source |-> "proposer", claim |-> <<"w">>, weakness_reason |-> <<"v">>]>>,
     <<[source |-> "advocate", claim |-> <<"w">>, weakness_reason |-> <<"v">>],
       [source |-> "proposer", claim |-> <<"w">>, weakness_reason |-> <<"v">>]>>,
     <<[source |-> "proposer", claim |-> <<"w">>, weakness_reason |-> <<"v">>],
       [source |-> "proposer", claim |-> <<"x">>, weakness_reason |-> <<"v">>]>>}

UnsupportedSamples ==
    {<<>>,
     <<[source |-> "proposer", claim |-> <<"u">>, missing_evidence |-> <<"e">>]>>,
     <<[source |-> "advocate", claim |-> <<"u">>, missing_evidence |-> <<"e">>],
       [source |-> "proposer", claim |-> <<"u">>, missing_evidence |-> <<"e">>]>>,
     <<[source |-> "proposer", claim |-> <<"u">>, missing_evidence |-> <<"e">>],
       [source |-> "proposer", claim |-> <<"z">>, missing_evidence |-> <<"e">>]>>}

EstimatorInputs ==
    [context_analysis :
        {[decision_type |-> "launch",
          required_context |-> DECISION_TYPE_CONTEXTS["launch"],
          provided_context |-> <<>>,
          missing_context |-> Take(DECISION_TYPE_CONTEXTS["launch"], k),
          completeness_score |-> sc]
            : k \in (0..(MaxItems + 1)) \cup {Len(DECISION_TYPE_CONTEXTS["launch"])},
              sc \in ScoreSamples},
     proposer_output :
        {[recommendation |-> "proceed", assumptions |-> a, confidence |-> c,
          justification |-> "j"] : a \in AssumptionLists,
                                   c \in ConfidenceSamples},
     devils_advocate_output :
        {[counterarguments |-> <<>>, failure_scenarios |-> fs,
          high_risk_assumptions |-> fe[1],
          risk_breakdown |-> [execution |-> fe[2], market_customer |-> 0,
                              reputational |-> r, opportunity_cost |-> 0]]
            : fs \in ScenarioSamples, fe \in CritiqueSamples, r \in ReputationalSamples},
     judge_output :
        {[proposer_strength |-> 5, advocate_strength |-> 5, weak_claims |-> w,
          unsupported_claims |-> u, reasoning_assessment |-> "r"]
            : w \in WeakSamples, u \in UnsupportedSamples}]

InitEstimate ==
    /\ store = <<>>
    /\ now = 0
    /\ langfuse = [enabled |-> FALSE, instance |-> FALSE]
    /\ env_keys = FALSE
    /\ nreq = 0
    /\ pc = [p \in Handlers |-> "idle"]
    /\ req = [p \in Handlers |-> NoRequest]
    /\ st = [p \in Handlers |-> None]
    /\ loc = [p \in Handlers |-> NoLocals]
    /\ invoked = [p \in Handlers |-> <<>>]
    /\ result = [p \in Handlers |-> Pending]
    /\ est_in \in EstimatorInputs
    /\ est_out = None

\* estimate(...) followed by generate_final_recommendation(...) on its output
CallEstimator ==
    /\ est_out = None
    /\ LET confidence_output ==
               estimate(est_in.context_analysis, est_in.proposer_output,
                        est_in.devils_advocate_output, est_in.judge_output)
       IN  est_out' =
               [confidence_output |-> confidence_output,
                final_recommendation |->
                    generate_final_recommendation(confidence_output,
                        est_in.proposer_output, est_in.devils_advocate_output,
                        est_in.context_analysis)]
    /\ UNCHANGED <<svc_vars, est_in>>

NextEstimate == CallEstimator

SpecEstimate == InitEstimate /\ [][NextEstimate]_vars

----------------------------------------------------------------------------
(* The completeness score called directly *)

\* the required lists of the five decision types and the empty list, each with
\* every choice of its items as the provided list
AnalyzerInputs ==
    UNION {{[required |-> required, provided |-> SelectSeqBy(required, chosen)]
               : chosen \in SUBSET Range(required)}
           : required \in {DECISION_TYPE_CONTEXTS[ty] : ty \in DOMAIN DECISION_TYPE_CONTEXTS}
                             \cup {<<>>}}

InitAnalyze ==
    /\ store = <<>>
    /\ now = 0
    /\ langfuse = [enabled |-> FALSE, instance |-> FALSE]
    /\ env_keys = FALSE
    /\ nreq = 0
    /\ pc = [p \in Handlers |-> "idle"]
    /\ req = [p \in Handlers |-> NoRequest]
    /\ st = [p \in Handlers |-> None]
    /\ loc = [p \in Handlers |-> NoLocals]
    /\ invoked = [p \in Handlers |-> <<>>]
    /\ result = [p \in Handlers |-> Pending]
    /\ est_in \in AnalyzerInputs
    /\ est_out = None

\* _calculate_completeness_score(provided_context, required_context)
CallScore ==
    /\ est_out = None
    /\ est_out' = [completeness_score |->
                       _calculate_completeness_score(est_in.provided, est_in.required)]
    /\ UNCHANGED <<svc_vars, est_in>>

NextAnalyze == CallScore

SpecAnalyze == InitAnalyze /\ [][NextAnalyze]_vars

----------------------------------------------------------------------------
(* Properties *)

LastOf(s) == s[Len(s)]

RECURSIVE LedgerSum(_, _)
\* the impacts of the first n entries of a ledger, added up
LedgerSum(ledger, n) ==
    IF n = 0 THEN 0 ELSE ledger[n].percentage_impact + LedgerSum(ledger, n - 1)

\* C1: for every input of estimate, adjusted is initial minus the sum of all
\* penalty impacts clamped to 0..100, so it lies in 0..100, it is exactly 0
\* whenever the penalties add up to at least initial, and delta is exactly
\* adjusted - initial.
C1_AdjustedIsClampedDifference ==
    est_out # None =>
        LET co == est_out.confidence_output
            total == LedgerSum(co.penalties, Len(co.penalties))
            raw == co.initial_confidence - total
        IN  /\ co.initial_confidence = est_in.proposer_output.confidence
            /\ co.adjusted_confidence =
                   (IF raw < 0 THEN 0 ELSE IF raw > 100 THEN 100 ELSE raw)
            /\ co.adjusted_confidence \in 0..100
            /\ (total >= co.initial_confidence => co.adjusted_confidence = 0)
            /\ co.delta = co.adjusted_confidence - co.initial_confidence

\* C1 witness: penalties larger than a positive initial confidence, clamped to 0
C1_Witness ==
    /\ est_out # None
    /\ est_out.confidence_output.initial_confidence > 0
    /\ LedgerSum(est_out.confidence_output.penalties,
                 Len(est_out.confidence_output.penalties))
           > est_out.confidence_output.initial_confidence
    /\ est_out.confidence_output.adjusted_confidence = 0

KeysUnique(rows) ==
    \A i, j \in 1..Len(rows) :
        (rows[i].decision_id = rows[j].decision_id /\ rows[i].version = rows[j].version)
            => i = j

KeyTaken(rows, decision_id, version) ==
    \E i \in 1..Len(rows) :
        rows[i].decision_id = decision_id /\ rows[i].version = version

\* a handler that has got an error does nothing more than hand it to its caller
ErrorIsFinal(p) ==
    result[p].status = "error" =>
        \/ /\ pc'[p] = pc[p]
           /\ result'[p] = result[p]
           /\ loc'[p] = loc[p]
           /\ invoked'[p] = invoked[p]
        \/ /\ pc'[p] = "idle"
           /\ result'[p] = Pending
           /\ store' = store

\* C2: under any interleaving of submit and reevaluate the table never holds two
\* rows with the same (identity, version); a writer that commits a version
\* already taken gets the conflict error, writes no row, and is not retried.
C2_UniqueVersionsConflictSurfaced ==
    [][/\ KeysUnique(store')
       /\ \A p \in Handlers :
            /\ ( /\ pc[p] = "commit"
                 /\ result[p].status = "pending"
                 /\ result'[p] # result[p]
                 /\ KeyTaken(store, loc[p].decision_id, loc[p].version) )
               => (result'[p] = [status |-> "error", error |-> IntegrityError]
                   /\ store' = store)
            /\ ErrorIsFinal(p)]_vars

\* C2 witness: a re-evaluation lost the race for its version and holds the conflict
C2_Witness ==
    \E p \in Handlers :
        /\ req[p].op = "reevaluate"
        /\ result[p] = [status |-> "error", error |-> IntegrityError]
        /\ KeyTaken(store, loc[p].decision_id, loc[p].version)

SameVersionRace(p, q) ==
    /\ p # q
    /\ req[p].op = "reevaluate" /\ req[q].op = "reevaluate"
    /\ pc[p] = "commit" /\ pc[q] = "commit"
    /\ loc[p].decision_id = loc[q].decision_id
    /\ loc[p].version = loc[q].version

\* C3 as stated: two concurrent re-evaluations of one identity are never
\* assigned the same version number.
C3_NeverSameVersionAssigned ==
    \A p, q \in Handlers : ~SameVersionRace(p, q)

\* C3 amended: the read of the maximum and the insert are separate steps, so two
\* concurrent re-evaluations of one identity can be assigned the same version
\* number; of two such writers at most one stores its row.
C3_AtMostOneRacerStores ==
    \A p, q \in Handlers :
        SameVersionRace(p, q) =>
            /\ ~(result[p].status = "ok" /\ result[q].status = "ok")
            /\ Cardinality({i \in 1..Len(store) :
                    /\ store[i].decision_id = loc[p].decision_id
                    /\ store[i].version = loc[p].version}) <= 1

\* C3 witness: both were assigned the same number, one stored it, one was refused
C3_Witness ==
    \E p, q \in Handlers :
        /\ SameVersionRace(p, q)
        /\ result[p].status = "ok"
        /\ result[q] = [status |-> "error", error |-> IntegrityError]

MaxVersion(rows, decision_id) ==
    IF RowsOf(rows, decision_id) = {} THEN 0
    ELSE LET vs == {rows[i].version : i \in RowsOf(rows, decision_id)}
         IN  CHOOSE v \in vs : \A w \in vs : w <= v

\* C4: a submit that succeeds stores version 1 of an identity with no rows, and a
\* re-evaluation that succeeds stores 1 + the largest version the table holds for
\* the identity at that moment, whatever versions are missing below it.
C4_VersionIsMaxPlusOne ==
    [][\A p \in Handlers :
          (result[p].status = "pending" /\ result'[p].status = "ok") =>
              /\ Len(store') = Len(store) + 1
              /\ SubSeq(store', 1, Len(store)) = store
              /\ LET r == store'[Len(store')]
                 IN  /\ result'[p].response.version = r.version
                     /\ result'[p].response.decision_id = r.decision_id
                     /\ IF req[p].op = "submit"
                        THEN r.version = 1 /\ RowsOf(store, r.decision_id) = {}
                        ELSE /\ r.decision_id = req[p].decision_id
                             /\ r.version = 1 + MaxVersion(store, r.decision_id)]_vars

\* C4 witness: the lineage holding versions 1 and 3 was re-evaluated into version 4
C4_Witness ==
    \E p \in Handlers :
        /\ req[p].op = "reevaluate"
        /\ result[p].status = "ok"
        /\ result[p].response.version = 4
        /\ {store[i].version : i \in RowsOf(store, req[p].decision_id)} = {1, 3, 4}

ValidReport(x) == x # None /\ x \notin AgentErrors /\ x # TelemetryError

\* the agent called last by the run of p left no report
StageFailed(p) ==
    /\ invoked[p] # <<>>
    /\ ~ValidReport(st[p][ReportField(LastOf(invoked[p]))])

\* C5: when a stage fails, by an error of the collaborator or a report that is
\* not valid, the run ends there: no later stage is called and no row is
\* written for the run, so the table is as it was.
C5_FailedStageAbortsRun ==
    [][\A p \in Handlers :
          /\ StageFailed(p) =>
                /\ result[p].status = "error"
                /\ pc[p] = LastOf(invoked[p])
                /\ ErrorIsFinal(p)
                /\ (store' # store =>
                       \E q \in Handlers \ {p} :
                           pc[q] = "commit" /\ result'[q].status = "ok")
          /\ (~StageFailed(p) /\ StageFailed(p)') => store' = store]_vars

\* C5 witness: a re-evaluation failed in its second stage and the table still
\* holds only the row that was there
C5_Witness ==
    \E p \in Handlers :
        /\ req[p].op = "reevaluate"
        /\ StageFailed(p)
        /\ invoked[p] = <<"context_analyzer", "proposer">>
        /\ result[p] = [status |-> "error", error |-> ValidationError]
        /\ Len(store) = 1

\* C6 as stated: a stage failure reaches the caller tagged with the name of the
\* stage that failed.  The code hands the caller the exception the collaborator
\* call raised, as it is: nothing in it names the stage.
C6_FailureNamesStage ==
    \A p \in Handlers :
        (StageFailed(p) /\ result[p].status = "error") =>
            /\ "stage" \in DOMAIN result[p].error
            /\ result[p].error.stage = LastOf(invoked[p])

\* C7 as stated: an exception of the telemetry client, at whichever telemetry
\* call it is raised, is caught and discarded and never reaches the caller.
C7_TelemetryNeverSurfaces ==
    \A p \in Handlers :
        result[p].status = "error" => result[p].error.type # "TelemetryError"

StageOrder ==
    <<"context_analyzer", "proposer", "devils_advocate", "judge", "confidence_estimator">>

\* C8: in every run the stages are called in the order completeness, proposal,
\* critique, judgment, confidence; a stage is called only when the reports of
\* all stages before it are in the state; no stage is called twice.
C8_StagesInFixedOrder ==
    \A p \in Handlers :
        LET n == Len(invoked[p])
        IN  /\ n <= Len(StageOrder)
            /\ invoked[p] = SubSeq(StageOrder, 1, n)
            /\ \A i \in 1..(n - 1) : ValidReport(st[p][ReportField(StageOrder[i])])
            /\ \A i, j \in 1..n : invoked[p][i] = invoked[p][j] => i = j

\* C8 witness: a run went through all five stages and was stored
C8_Witness ==
    \E p \in Handlers :
        /\ invoked[p] = StageOrder
        /\ result[p].status = "ok"

LatestText(rows, decision_id) ==
    LET i == CHOOSE i \in RowsOf(rows, decision_id) :
                 \A j \in RowsOf(rows, decision_id) : rows[j].version <= rows[i].version
    IN  rows[i].output_json.decision

IsMismatch(res) ==
    /\ res.status = "error"
    /\ res.error.type = "ValueError"
    /\ res.error.msg[1] = "Decision statement must match original."

\* C9: a reevaluate whose decision text differs from the text of the latest
\* stored version of the identity fails with the mismatch error, calls no stage
\* and adds no row.
C9_MismatchRejected ==
    [][\A p \in Handlers :
          /\ ( /\ pc[p] = "idle"
               /\ req'[p].op = "reevaluate"
               /\ RowsOf(store, req'[p].decision_id) # {}
               /\ req'[p].decision # LatestText(store, req'[p].decision_id) )
             => (IsMismatch(result'[p]) /\ store' = store /\ invoked'[p] = <<>>)
          /\ IsMismatch(result[p]) => (ErrorIsFinal(p) /\ invoked[p] = <<>>)]_vars

\* C9 witness: a handler holds the mismatch error for a lineage that is stored
C9_Witness ==
    \E p \in Handlers :
        /\ IsMismatch(result[p])
        /\ req[p].op = "reevaluate"
        /\ RowsOf(store, req[p].decision_id) # {}
        /\ req[p].decision # LatestText(store, req[p].decision_id)

\* C10: in every reachable state all rows of one identity carry the same
\* decision text.
C10_OneTextPerIdentity ==
    \A i, j \in 1..Len(store) :
        store[i].decision_id = store[j].decision_id =>
            /\ store[i].output_json.decision = store[j].output_json.decision
            /\ store[i].input_json.decision = store[j].input_json.decision

\* C10 witness: a lineage of two versions while the other text is stored under
\* another identity
C10_Witness ==
    \E i, j, k \in 1..Len(store) :
        /\ i # j
        /\ store[i].decision_id = store[j].decision_id
        /\ store[k].decision_id # store[i].decision_id
        /\ store[k].output_json.decision # store[i].output_json.decision

\* the stored run of an identity and version
RunAt(rows, decision_id, version) ==
    rows[CHOOSE i \in 1..Len(rows) :
             rows[i].decision_id = decision_id /\ rows[i].version = version].output_json

\* handler p takes up a request in this step
Starts(p) == pc[p] = "idle" /\ pc'[p] # "idle"

\* C11: no operation changes or removes a row already written: every step
\* leaves the rows of the table in place and at most appends, the four read
\* methods leave the table as it is, and get(identity, v) answers with version
\* v as its row was written, whatever versions were added after it.
C11_StoreAppendOnly ==
    [][/\ Len(store') >= Len(store)
       /\ SubSeq(store', 1, Len(store)) = store
       /\ \A p \in Handlers :
            /\ (Starts(p) /\ req'[p].op \in {"get", "get_latest", "get_all_versions",
                                             "compare"})
                  => store' = store
            /\ (Starts(p) /\ req'[p].op = "get") =>
                  \A i \in 1..Len(store) :
                      ( /\ store[i].decision_id = req'[p].decision_id
                        /\ store[i].version = req'[p].version )
                      => /\ result'[p].status = "ok"
                         /\ result'[p].response.version = req'[p].version
                         /\ result'[p].response = DecisionResponse(store[i].output_json)]_vars

\* C11 witness: version 1 read back unchanged after a re-evaluation with another
\* context stored a later version
C11_Witness ==
    \E p \in Handlers :
        /\ req[p].op = "get"
        /\ req[p].version = 1
        /\ result[p].status = "ok"
        /\ result[p].response.version = 1
        /\ \E i \in RowsOf(store, req[p].decision_id) :
              /\ store[i].version > 1
              /\ store[i].input_json.context # result[p].response.context_provided

\* C12 as stated: every submit whose run completed stores its record under an
\* identity no other record has: it is never refused, and two submits never
\* hold the same decision id.
C12_SubmitIdsDistinct ==
    \A p \in Handlers :
        (req[p].op = "submit" /\ pc[p] = "commit") =>
            /\ result[p].status # "error"
            /\ \A q \in Handlers \ {p} :
                  (req[q].op = "submit" /\ pc[q] = "commit")
                      => loc[q].decision_id # loc[p].decision_id

\* the ledger entries whose reason starts with one of the labels
EntriesWith(ledger, labels) == SelectSeq(ledger, LAMBDA e : e.reason[1] \in labels)

Impacts(entries) == {entries[k].percentage_impact : k \in 1..Len(entries)}

\* C13: the ledger holds exactly one missing-context entry per item of
\* missing_context, in order, each of impact 20 when the score is below 30, 15
\* when it is 30..49 and 10 when it is 50 or more.
C13_MissingContextStep ==
    est_out # None =>
        LET ca == est_in.context_analysis
            es == EntriesWith(est_out.confidence_output.penalties,
                              {"Missing critical context"})
        IN  /\ Len(es) = Len(ca.missing_context)
            /\ \A k \in 1..Len(es) :
                  /\ es[k].reason[2] = ca.missing_context[k]
                  /\ (ca.completeness_score <= 29 => es[k].percentage_impact = 20)
                  /\ (ca.completeness_score \in 30..49 => es[k].percentage_impact = 15)
                  /\ (ca.completeness_score >= 50 => es[k].percentage_impact = 10)

\* C13 witness: three missing items at score 30, three entries of 15
C13_Witness ==
    /\ est_out # None
    /\ est_in.context_analysis.completeness_score = 30
    /\ Len(est_in.context_analysis.missing_context) = 3
    /\ LET es == EntriesWith(est_out.confidence_output.penalties,
                             {"Missing critical context"})
       IN  Len(es) = 3 /\ Impacts(es) = {15}

\* C14: the ledger holds one execution-risk entry when execution >= 6 and none
\* below: a single 15 when execution >= 8, a single 8 when it is 6 or 7, never
\* both, whatever the other penalties are.
C14_ExecutionRiskSingleEntry ==
    est_out # None =>
        LET e == est_in.devils_advocate_output.risk_breakdown.execution
            es == EntriesWith(est_out.confidence_output.penalties,
                              {"Critical execution risk level",
                               "High execution risk level"})
        IN  /\ (e >= 8 => (Len(es) = 1 /\ es[1].percentage_impact = 15))
            /\ ((e >= 6 /\ e < 8) => (Len(es) = 1 /\ es[1].percentage_impact = 8))
            /\ (e < 6 => es = <<>>)

\* C14 witness: execution 8 among other penalties, one entry of 15
C14_Witness ==
    /\ est_out # None
    /\ est_in.devils_advocate_output.risk_breakdown.execution = 8
    /\ LET es == EntriesWith(est_out.confidence_output.penalties,
                             {"Critical execution risk level",
                              "High execution risk level"})
       IN  /\ Len(es) = 1
           /\ es[1].percentage_impact = 15
           /\ Len(est_out.confidence_output.penalties) > 3

SameLetter(a, b) == a = b \/ {a, b} \in {{"a", "A"}, {"b", "B"}}

\* statement occurs in one of the flags, letters compared without their case
FlaggedByCritique(statement, flags) ==
    \E f \in 1..Len(flags) :
        \E off \in 0..(Len(flags[f]) - Len(statement)) :
            \A k \in 1..Len(statement) : SameLetter(statement[k], flags[f][off + k])

\* C15: the ledger holds one high-risk-assumption entry per assumption of risk
\* level high, in order: 12 when the statement is a case-insensitive substring
\* of a flag of the critique, 6 when it is not; other assumptions add none.
C15_HighRiskAssumptionEntries ==
    est_out # None =>
        LET highs == SelectSeq(est_in.proposer_output.assumptions,
                               LAMBDA a : a.risk_level = "high")
            flags == est_in.devils_advocate_output.high_risk_assumptions
            es == EntriesWith(est_out.confidence_output.penalties,
                              {"High-risk unverified assumption", "High-risk assumption"})
        IN  /\ Len(es) = Len(highs)
            /\ \A k \in 1..Len(es) :
                  es[k].percentage_impact =
                      (IF FlaggedByCritique(highs[k].statement, flags) THEN 12 ELSE 6)

\* C15 witness: a high-risk statement found in a flag written in another case
\* next to a medium-risk assumption: one entry, of 12
C15_Witness ==
    /\ est_out # None
    /\ Len(est_in.proposer_output.assumptions) = 2
    /\ \E a \in Range(est_in.proposer_output.assumptions) : a.risk_level = "medium"
    /\ \E a \in Range(est_in.proposer_output.assumptions) :
          /\ a.risk_level = "high"
          /\ \E f \in Range(est_in.devils_advocate_output.high_risk_assumptions) :
                IsSubstring(Lower(a.statement), Lower(f)) /\ ~IsSubstring(a.statement, f)
    /\ LET es == EntriesWith(est_out.confidence_output.penalties,
                             {"High-risk unverified assumption", "High-risk assumption"})
       IN  Len(es) = 1 /\ es[1].percentage_impact = 12

FromProposer(claims) == {i \in 1..Len(claims) : claims[i].source = "proposer"}

\* C16: the ledger holds one entry of 8 per unsupported claim whose source is
\* the proposer and one entry of 5 per weak claim whose source is the proposer;
\* claims of another source add none.
C16_ClaimFlagEntries ==
    est_out # None =>
        LET jo == est_in.judge_output
            eu == EntriesWith(est_out.confidence_output.penalties, {"Unsupported claim"})
            ew == EntriesWith(est_out.confidence_output.penalties, {"Weak/vague claim"})
        IN  /\ Len(eu) = Cardinality(FromProposer(jo.unsupported_claims))
            /\ Impacts(eu) \subseteq {8}
            /\ Len(ew) = Cardinality(FromProposer(jo.weak_claims))
            /\ Impacts(ew) \subseteq {5}

\* C16 witness: an advocate's and a proposer's unsupported claim give one entry
\* of 8, two weak claims of the proposer give two entries of 5
C16_Witness ==
    /\ est_out # None
    /\ Len(est_in.judge_output.unsupported_claims) = 2
    /\ Cardinality(FromProposer(est_in.judge_output.unsupported_claims)) = 1
    /\ Cardinality(FromProposer(est_in.judge_output.weak_claims)) = 2
    /\ Len(EntriesWith(est_out.confidence_output.penalties, {"Unsupported claim"})) = 1
    /\ Len(EntriesWith(est_out.confidence_output.penalties, {"Weak/vague claim"})) = 2

\* C17: the heading of the rendered recommendation follows from the adjusted
\* confidence alone: DELAY up to 39, CONDITIONAL PROCEED from 40 to 69, PROCEED
\* from 70; every adjusted value of 0..100 has exactly one of the three.
C17_CategoryByThreshold ==
    est_out # None =>
        LET adjusted == est_out.confidence_output.adjusted_confidence
            heading == est_out.final_recommendation.heading
        IN  /\ adjusted \in 0..100
            /\ heading \in {"DELAY", "CONDITIONAL PROCEED", "PROCEED"}
            /\ (heading = "DELAY" <=> adjusted <= 39)
            /\ (heading = "CONDITIONAL PROCEED" <=> (adjusted >= 40 /\ adjusted <= 69))
            /\ (heading = "PROCEED" <=> adjusted >= 70)
            /\ est_out.final_recommendation.shown = adjusted

\* C17 witness: adjusted confidence of exactly 40 rendered as CONDITIONAL PROCEED
C17_Witness ==
    /\ est_out # None
    /\ est_out.confidence_output.adjusted_confidence = 40
    /\ est_out.final_recommendation.heading = "CONDITIONAL PROCEED"

MissingOf(decision_run) == Range(decision_run.context_analysis.missing_context)

Compared(p) == req[p].op = "compare" /\ result[p].status = "ok"

\* C18: for a comparison of stored versions A and B, resolved is what A misses
\* and B does not, remaining what both miss, new what B misses and A does not;
\* resolved and remaining are disjoint and together are A's missing set, and new
\* has nothing of A's missing set.
C18_CompareSetAlgebra ==
    \A p \in Handlers :
        Compared(p) =>
            LET A == MissingOf(RunAt(store, req[p].decision_id, req[p].v1))
                B == MissingOf(RunAt(store, req[p].decision_id, req[p].v2))
                c == result[p].response
            IN  /\ \A x \in A \cup B :
                      /\ x \in c.resolved_missing_context <=> (x \in A /\ x \notin B)
                      /\ x \in c.remaining_missing_context <=> (x \in A /\ x \in B)
                      /\ x \in c.new_missing_context <=> (x \in B /\ x \notin A)
                /\ c.resolved_missing_context \cup c.remaining_missing_context = A
                /\ c.resolved_missing_context \cap c.remaining_missing_context = {}
                /\ c.new_missing_context \cap A = {}
                /\ c.new_missing_context \subseteq B

\* C18 witness: a comparison in which something was resolved, something remains
\* and something is new
C18_Witness ==
    \E p \in Handlers :
        /\ Compared(p)
        /\ result[p].response.resolved_missing_context # {}
        /\ result[p].response.remaining_missing_context # {}
        /\ result[p].response.new_missing_context # {}

AdjustedOr0(decision_run) ==
    IF decision_run.confidence_output = None THEN 0
    ELSE decision_run.confidence_output.adjusted_confidence

RiskOr0(decision_run, dim) ==
    IF decision_run.devils_advocate_output = None THEN 0
    ELSE decision_run.devils_advocate_output.risk_breakdown[dim]

RiskDimensions == {"execution", "market_customer", "reputational", "opportunity_cost"}

\* C19: for a comparison of stored versions A and B, adjacent or not, the
\* completeness delta is B's score minus A's, the confidence delta B's adjusted
\* confidence minus A's, and each risk delta B's risk minus A's in that
\* dimension, a report that is absent counting as 0.
C19_CompareDeltas ==
    \A p \in Handlers :
        Compared(p) =>
            LET A == RunAt(store, req[p].decision_id, req[p].v1)
                B == RunAt(store, req[p].decision_id, req[p].v2)
                c == result[p].response
            IN  /\ c.context_completeness_delta =
                       B.context_analysis.completeness_score
                           - A.context_analysis.completeness_score
                /\ c.confidence_delta = AdjustedOr0(B) - AdjustedOr0(A)
                /\ DOMAIN c.risk_reduction = RiskDimensions
                /\ \A d \in RiskDimensions :
                       c.risk_reduction[d] = RiskOr0(B, d) - RiskOr0(A, d)

\* C19 witness: versions 1 and 3 compared, version 1 without confidence and
\* critique reports, every delta different from 0
C19_Witness ==
    \E p \in Handlers :
        /\ Compared(p)
        /\ req[p].v1 = 1 /\ req[p].v2 = 3
        /\ RunAt(store, req[p].decision_id, 1).confidence_output = None
        /\ RunAt(store, req[p].decision_id, 1).devils_advocate_output = None
        /\ result[p].response.confidence_delta > 0
        /\ result[p].response.context_completeness_delta # 0
        /\ result[p].response.risk_reduction.execution > 0

IsNotFound(res) ==
    /\ res.status = "error"
    /\ res.error.type = "ValueError"
    /\ LastOf(res.error.msg) = "not found"

\* C20: get of a pair that is not stored, getLatest, listVersions and reevaluate
\* of an identity without rows, and compare with either version not stored fail
\* with the not-found error; the table stays as it is and the handler does
\* nothing more than hand the error to its caller.
C20_AbsentDataNotFound ==
    [][\A p \in Handlers :
          /\ Starts(p) =>
                LET r == req'[p]
                    absent ==
                        \/ r.op = "get" /\ ~KeyTaken(store, r.decision_id, r.version)
                        \/ /\ r.op \in {"get_latest", "get_all_versions", "reevaluate"}
                           /\ RowsOf(store, r.decision_id) = {}
                        \/ /\ r.op = "compare"
                           /\ \/ ~KeyTaken(store, r.decision_id, r.v1)
                              \/ ~KeyTaken(store, r.decision_id, r.v2)
                IN  /\ absent => (IsNotFound(result'[p]) /\ store' = store)
                    /\ (IsNotFound(result'[p]) /\ r.op # "submit") => absent
          /\ IsNotFound(result[p]) => (ErrorIsFinal(p) /\ invoked[p] = <<>>)]_vars

\* C20 witness: a comparison of a stored version with one that is not stored
\* ended in the not-found error
C20_Witness ==
    \E p \in Handlers :
        /\ req[p].op = "compare"
        /\ KeyTaken(store, req[p].decision_id, req[p].v1)
        /\ ~KeyTaken(store, req[p].decision_id, req[p].v2)
        /\ IsNotFound(result[p])

VersionsOf(rows, decision_id) == {rows[i].version : i \in RowsOf(rows, decision_id)}

\* C21: listVersions answers with one summary for every stored version of the
\* identity, in ascending order of version, each taken from its row; getLatest
\* answers with the record of the largest stored version.
C21_ReadsReflectStore ==
    \A p \in Handlers :
        /\ (req[p].op = "get_all_versions" /\ result[p].status = "ok") =>
              LET L == result[p].response
                  id == req[p].decision_id
              IN  /\ Len(L) = Cardinality(RowsOf(store, id))
                  /\ {L[k].version : k \in 1..Len(L)} = VersionsOf(store, id)
                  /\ \A k \in 1..(Len(L) - 1) : L[k].version < L[k + 1].version
                  /\ \A k \in 1..Len(L) :
                        LET run == RunAt(store, id, L[k].version)
                        IN  /\ L[k].timestamp = run.timestamp
                            /\ L[k].context_completeness =
                                   run.context_analysis.completeness_score
                            /\ L[k].adjusted_confidence = AdjustedOr0(run)
        /\ (req[p].op = "get_latest" /\ result[p].status = "ok") =>
              LET id == req[p].decision_id
              IN  /\ result[p].response.version = MaxVersion(store, id)
                  /\ result[p].response =
                         DecisionResponse(RunAt(store, id, MaxVersion(store, id)))

\* C21 witness: a list of four summaries, versions 1 to 4
C21_Witness ==
    \E p \in Handlers :
        /\ req[p].op = "get_all_versions"
        /\ result[p].status = "ok"
        /\ Len(result[p].response) = 4
        /\ result[p].response[1].version = 1
        /\ result[p].response[4].version = 4

TelemetryOff == ~langfuse.enabled \/ ~env_keys

AllReports(state) ==
    /\ \A n \in Nodes : ValidReport(state[ReportField(n)])
    /\ state.final_recommendation # None

\* C22: a run started while the telemetry client is unconfigured or disabled
\* gets no trace; a run without a trace never hands a telemetry error to its
\* caller, and when it reaches the end it has gone through all five stages and
\* holds all reports and the final recommendation; and a stage that runs without
\* a trace, or while the client is off, and gets its report hands over to the
\* next stage.
C22_TelemetryOffIsNoOp ==
    [][\A p \in Handlers :
          /\ (TelemetryOff /\ Starts(p) /\ st'[p] # None) => st'[p].trace_id = "None"
          /\ (st[p] # None /\ st[p].trace_id = "None") =>
                 /\ (result[p].status = "error"
                         => result[p].error.type # "TelemetryError")
                 /\ (pc[p] \in {"END", "timestamp", "commit"} =>
                         (invoked[p] = StageOrder /\ AllReports(st[p])))
          /\ ( /\ pc[p] \in Nodes
               /\ TelemetryOff \/ st[p].trace_id = "None"
               /\ invoked'[p] = Append(invoked[p], pc[p])
               /\ ValidReport(st'[p][ReportField(pc[p])]) )
             => (pc'[p] = Edge(pc[p]) /\ result'[p] = Pending)]_vars

\* C22 witness: with the keys unset a run went through all five stages without
\* a trace and was stored
C22_Witness ==
    \E p \in Handlers :
        /\ ~env_keys
        /\ st[p] # None
        /\ st[p].trace_id = "None"
        /\ invoked[p] = StageOrder
        /\ AllReports(st[p])
        /\ result[p].status = "ok"

\* C27: estimate never raises confidence: adjusted <= initial and delta <= 0 for
\* every input, and adjusted < initial, delta < 0, whenever the ledger holds a
\* penalty and initial is above 0.
C27_ConfidenceNeverRaised ==
    est_out # None =>
        LET co == est_out.confidence_output
        IN  /\ co.adjusted_confidence <= co.initial_confidence
            /\ co.delta <= 0
            /\ (co.penalties # <<>> /\ co.initial_confidence > 0) =>
                   (co.adjusted_confidence < co.initial_confidence /\ co.delta < 0)

\* C27 witness: a ledger of one penalty took a confidence of 100 down, not to 0
C27_Witness ==
    /\ est_out # None
    /\ Len(est_out.confidence_output.penalties) = 1
    /\ est_out.confidence_output.initial_confidence = 100
    /\ est_out.confidence_output.adjusted_confidence \in 1..99
    /\ est_out.confidence_output.delta < 0

\* C28: in every reachable state the versions stored for an identity are
\* exactly 1..n, each once, whichever operations succeeded or failed before.
C28_VersionsContiguous ==
    \A i \in 1..Len(store) :
        LET id == store[i].decision_id
        IN  /\ VersionsOf(store, id) = 1..Cardinality(RowsOf(store, id))
            /\ \A j \in RowsOf(store, id) : store[j].version = store[i].version => j = i

\* C28 witness: one re-evaluation of an identity failed in a stage, another one
\* succeeded with version 2, and the identity holds versions 1 and 2
C28_Witness ==
    \E p, q \in Handlers :
        /\ p # q
        /\ req[p].op = "reevaluate"
        /\ result[p] = [status |-> "error", error |-> APIError]
        /\ req[q].op = "reevaluate"
        /\ req[q].decision_id = req[p].decision_id
        /\ result[q].status = "ok"
        /\ result[q].response.version = 2
        /\ VersionsOf(store, req[p].decision_id) = {1, 2}

\* the run holds all five reports and the recommendation, and its confidence
\* report and recommendation are the ones computed from its other reports
Complete(run) ==
    /\ AllReports(run)
    /\ run.confidence_output =
           estimate(run.context_analysis, run.proposer_output,
                    run.devils_advocate_output, run.judge_output)
    /\ run.final_recommendation =
           generate_final_recommendation(run.confidence_output, run.proposer_output,
               run.devils_advocate_output, run.context_analysis)

\* C29: a row is written only by a run that went through all five stages, and
\* every stored record holds the five reports and the final recommendation of
\* that run, none of them null, its confidence report being the one computed
\* from its other four reports.
C29_StoredRunsComplete ==
    [][/\ \A i \in 1..Len(store') : Complete(store'[i].output_json)
       /\ store' # store =>
             \E p \in Handlers :
                 /\ pc[p] = "commit"
                 /\ invoked[p] = StageOrder
                 /\ AllReports(st[p])
                 /\ \A n \in Nodes :
                       LastOf(store').output_json[ReportField(n)] = st[p][ReportField(n)]
                 /\ LastOf(store').output_json.final_recommendation
                        = st[p].final_recommendation]_vars

\* C29 witness: a stored second version whose confidence report shows penalties
C29_Witness ==
    \E i \in 1..Len(store) :
        /\ store[i].version = 2
        /\ Complete(store[i].output_json)
        /\ store[i].output_json.confidence_output.penalties # <<>>
        /\ store[i].output_json.confidence_output.adjusted_confidence
               < store[i].output_json.proposer_output.confidence

\* the first n elements of s, or all of s when it is shorter
FirstN(s, n) == [k \in 1..(IF Len(s) < n THEN Len(s) ELSE n) |-> s[k]]

HighStatements(assumptions) ==
    LET highs == SelectSeq(assumptions, LAMBDA a : a.risk_level = "high")
    IN  [k \in 1..Len(highs) |-> highs[k].statement]

Rendered(heading) == est_out # None /\ est_out.final_recommendation.heading = heading

\* C23: below 40 the DELAY list is the first five of: the first three missing
\* items as "Gather missing context", then the first two high-risk assumptions
\* as "Verify assumption", then the first two critical failure scenarios as
\* "Mitigate risk"; what comes after the fifth is left out.
C23_DelayBlockers ==
    Rendered("DELAY") =>
        LET items == est_out.final_recommendation.items
            gather == FirstN(est_in.context_analysis.missing_context, 3)
            verify == FirstN(HighStatements(est_in.proposer_output.assumptions), 2)
            critical == FirstN(SelectSeq(est_in.devils_advocate_output.failure_scenarios,
                                   LAMBDA fs : fs.impact_severity = "critical"), 2)
            all == [k \in 1..Len(gather) |->
                       [label |-> "Gather missing context", arg |-> gather[k]]]
                \o [k \in 1..Len(verify) |->
                       [label |-> "Verify assumption", arg |-> verify[k]]]
                \o [k \in 1..Len(critical) |->
                       [label |-> "Mitigate risk", arg |-> critical[k].description]]
        IN  /\ est_out.confidence_output.adjusted_confidence < 40
            /\ Len(items) <= 5
            /\ items = FirstN(all, 5)
            /\ ~est_out.final_recommendation.no_list

\* C23 witness: all six items missing, three high-risk assumptions and three
\* critical scenarios: the list holds the first three missing items and the
\* first two assumptions, and nothing else
C23_Witness ==
    /\ Rendered("DELAY")
    /\ Len(est_in.context_analysis.missing_context) = 6
    /\ Len(HighStatements(est_in.proposer_output.assumptions)) = 3
    /\ Len(SelectSeq(est_in.devils_advocate_output.failure_scenarios,
                     LAMBDA fs : fs.impact_severity = "critical")) = 3
    /\ Len(est_out.final_recommendation.items) = 5
    /\ est_out.final_recommendation.items[3] =
           [label |-> "Gather missing context",
            arg |-> est_in.context_analysis.missing_context[3]]
    /\ est_out.final_recommendation.items[4] =
           [label |-> "Verify assumption", arg |-> <<"a", "B">>]
    /\ est_out.final_recommendation.items[5] =
           [label |-> "Verify assumption", arg |-> <<"e">>]

\* C24: from 70 on the PROCEED list holds, in this order and at most four: the
\* first medium-risk assumption if there is one, the first failure scenario if
\* there is one, the execution note iff execution >= 5, the reputational note iff
\* reputational >= 6; the text without a list is rendered iff none applies.
C24_ProceedMonitoring ==
    Rendered("PROCEED") =>
        LET rec == est_out.final_recommendation
            mediums == SelectSeq(est_in.proposer_output.assumptions,
                                 LAMBDA a : a.risk_level = "medium")
            scenarios == est_in.devils_advocate_output.failure_scenarios
            risk == est_in.devils_advocate_output.risk_breakdown
            all == (IF mediums # <<>>
                    THEN <<[label |-> "Monitor assumption", arg |-> mediums[1].statement]>>
                    ELSE <<>>)
                \o (IF scenarios # <<>>
                    THEN <<[label |-> "Watch for", arg |-> scenarios[1].description]>>
                    ELSE <<>>)
                \o (IF risk.execution >= 5
                    THEN <<[label |-> "Monitor execution closely",
                            arg |-> risk.execution]>>
                    ELSE <<>>)
                \o (IF risk.reputational >= 6
                    THEN <<[label |-> "Monitor public perception",
                            arg |-> risk.reputational]>>
                    ELSE <<>>)
        IN  /\ est_out.confidence_output.adjusted_confidence >= 70
            /\ Len(rec.items) <= 4
            /\ rec.items = all
            /\ rec.no_list <=> (all = <<>>)

\* C24 witness: all four monitoring entries, the medium-risk assumption standing
\* behind a high-risk one
C24_Witness ==
    /\ Rendered("PROCEED")
    /\ Len(est_in.proposer_output.assumptions) = 2
    /\ est_in.proposer_output.assumptions[1].risk_level = "high"
    /\ Len(est_out.final_recommendation.items) = 4
    /\ est_out.final_recommendation.items[1].label = "Monitor assumption"
    /\ est_out.final_recommendation.items[4].label = "Monitor public perception"

\* C25: from 40 to 69 the CONDITIONAL list holds, in this order and at most
\* five: one entry with the first two missing items iff an item is missing, one
\* entry with the first high-risk assumption iff there is one, one entry with the
\* first failure scenario of high or critical severity iff there is one.
C25_ConditionalRequirements ==
    Rendered("CONDITIONAL PROCEED") =>
        LET rec == est_out.final_recommendation
            missing == est_in.context_analysis.missing_context
            highs == HighStatements(est_in.proposer_output.assumptions)
            severe == SelectSeq(est_in.devils_advocate_output.failure_scenarios,
                                LAMBDA fs : fs.impact_severity \in {"high", "critical"})
            all == (IF missing # <<>>
                    THEN <<[label |-> "Obtain", arg |-> FirstN(missing, 2)]>>
                    ELSE <<>>)
                \o (IF highs # <<>>
                    THEN <<[label |-> "Validate assumptions", arg |-> highs[1]]>>
                    ELSE <<>>)
                \o (IF severe # <<>>
                    THEN <<[label |-> "Prepare mitigation for",
                            arg |-> severe[1].description]>>
                    ELSE <<>>)
        IN  /\ est_out.confidence_output.adjusted_confidence \in 40..69
            /\ Len(rec.items) <= 5
            /\ rec.items = all
            /\ ~rec.no_list

\* C25 witness: three requirements, the first naming two of three missing items,
\* the last a high-severity scenario that stands behind a medium one
C25_Witness ==
    /\ Rendered("CONDITIONAL PROCEED")
    /\ Len(est_in.context_analysis.missing_context) = 3
    /\ est_in.devils_advocate_output.failure_scenarios # <<>>
    /\ est_in.devils_advocate_output.failure_scenarios[1].impact_severity = "medium"
    /\ Len(est_out.final_recommendation.items) = 3
    /\ Len(est_out.final_recommendation.items[1].arg) = 2
    /\ est_out.final_recommendation.items[3].label = "Prepare mitigation for"

\* C26 as stated: the completeness score is round(100 * |provided| / |required|)
\* clamped to 0..100, and 100 when nothing is required.
C26_ScoreIsRounded ==
    est_out # None =>
        est_out.completeness_score =
            (IF Len(est_in.required) = 0 THEN 100
             ELSE LET r == RoundHalfEven(100 * Len(est_in.provided), Len(est_in.required))
                  IN  IF r < 0 THEN 0 ELSE IF r > 100 THEN 100 ELSE r)

\* C26 amended: the completeness score is 100 * |provided| / |required| with the
\* fraction cut off, not rounded (1 of 6 gives 16, 4 of 6 gives 66), within
\* 0..100, and 100 when nothing is required.
C26_ScoreIsTruncated ==
    est_out # None =>
        LET n == 100 * Len(est_in.provided)
            d == Len(est_in.required)
            score == est_out.completeness_score
        IN  IF d = 0 THEN score = 100
            ELSE /\ score \in 0..100
                 /\ score * d <= n
                 /\ n < (score + 1) * d

\* C26 witness: four of six required items provided, score 66
C26_Witness ==
    /\ est_out # None
    /\ Len(est_in.required) = 6
    /\ Len(est_in.provided) = 4
    /\ est_out.completeness_score = 66

\* C30: a reevaluate of an unknown identity or with a text other than the
\* stored one ends at validation, before any stage is invoked, and a stage is
\* invoked for a reevaluate only when both checks passed; the version it writes
\* is 1 + the largest version in the table when the pipeline has finished, not
\* the number after the version read at validation.
C30_ValidateFirstVersionLast ==
    [][\A p \in Handlers :
          /\ ( /\ Starts(p)
               /\ req'[p].op = "reevaluate"
               /\ \/ RowsOf(store, req'[p].decision_id) = {}
                  \/ req'[p].decision # LatestText(store, req'[p].decision_id) )
             => /\ pc'[p] = "validate"
                /\ result'[p].status = "error"
                /\ invoked'[p] = <<>>
                /\ st'[p] = None
                /\ store' = store
          /\ pc[p] = "validate" => (invoked[p] = <<>> /\ ErrorIsFinal(p))
          /\ (req[p].op = "reevaluate" /\ invoked[p] # <<>>) =>
                /\ RowsOf(store, req[p].decision_id) # {}
                /\ req[p].decision = LatestText(store, req[p].decision_id)
                /\ loc[p].latest_version \in VersionsOf(store, req[p].decision_id)
          /\ (req[p].op = "reevaluate" /\ pc[p] = "END" /\ pc'[p] = "timestamp") =>
                loc'[p].version = 1 + MaxVersion(store, req[p].decision_id)]_vars

\* C30 witness: a re-evaluation validated against version 1 was given version 3,
\* version 2 having been stored while its pipeline ran
C30_Witness ==
    \E p \in Handlers :
        /\ req[p].op = "reevaluate"
        /\ loc[p].latest_version = 1
        /\ loc[p].version = 3
        /\ result[p].status = "ok"

====
